---- MODULE Spec2Model ----
(***************************************************************************)
(* Token lifecycle of the NEPSE client: the auth Manager (cache, TTL,      *)
(* single-flight update), the token codec (sliceSkipAt), the engine call   *)
(* convention (call5, indicesFromSalts) and the authenticated-request      *)
(* glue of the Client (doRequest, doAuthenticatedRequest).                 *)
(*                                                                         *)
(* Strings are sequences of small naturals (bytes); "" is << >>.           *)
(* Errors are tuples of strings, outermost wrapper first; nil is << >>.    *)
(* Time is counted in seconds; server time arrives in milliseconds.        *)
(***************************************************************************)
EXTENDS Integers, Sequences, FiniteSets, TLC

\* ------------------------------------------------------------------ bounds

\* Calls (AccessToken / ForceUpdate / apiRequest) started in one behaviour.
MaxCalls == 3
\* Clock advances in one behaviour.
MaxTicks == 1
\* Word width used for the engine's calling convention (the code uses 32; the
\* model checker's integers are 32 bits wide themselves, so the convention is
\* modelled at a narrower width with the same wrap-around arithmetic).
IntBits == 16
\* Retry budgets (Options.MaxRetries) the client is configured with: 0..MaxRetriesBound.
MaxRetriesBound == 1

\* HTTP attempts (c.httpClient.Do calls, token and API endpoint together) made
\* in one behaviour of the client.
MaxAttempts == 4
\* apiRequest calls started in one behaviour of the client.
MaxApiCalls == 2

\* Options.MaxRetries of a client whose Token is called by itself:
\* 0..MaxTokenRetries.
MaxTokenRetries == 3

\* Strings handed to sliceSkipAt: up to MaxStrLen bytes out of 1..NumBytes.
MaxStrLen == 3
NumBytes == 2
\* Position lists handed to sliceSkipAt: up to MaxPositions positions.
MaxPositions == 3
\* Salts handed to indicesFromSalts: each out of 1..MaxSalt.
MaxSalt == 5

\* ------------------------------------------------------- program constants

\* DefaultTokenTTL = 45 * time.Second
DefaultTokenTTL == 45
\* ServerTime is milliseconds; parseResponse divides by 1000.
MillisPerSecond == 1000

\* The goroutines that use one Manager / one Client.
Callers == {"g1", "g2"}

\* The local clock when the model starts (any positive instant).
StartTime == 100

\* time.Time{}: the zero instant of a never-written tokenTS.
ZeroTime == 0

ErrNil == << >>
Wrap(msg, err) == <<msg>> \o err

\* A junk byte the server inserts.
Junk == 9
\* The outcome of a string operation that panics at run time (no string: bytes
\* are naturals).
Panic == <<-1>>

\* --------------------------------------------------------------- the codec

RECURSIVE InsertSorted(_, _)
InsertSorted(x, s) ==
    IF s = << >> THEN <<x>>
    ELSE IF x <= Head(s) THEN <<x>> \o s
    ELSE <<Head(s)>> \o InsertSorted(x, Tail(s))

\* The positions taken in the order given.
sortInts_Unsorted(a) == a

\* sort.Ints(ps) / sortInts(ps): ascending order, duplicates kept.
RECURSIVE sortInts(_)
sortInts(a) ==
    IF a = << >> THEN << >> ELSE InsertSorted(Head(a), sortInts(Tail(a)))

\* The loop with only the lower bound tested: a position at or past the end
\* of b is sliced like any other.
RECURSIVE SkipLoop_NoUpperBound(_, _, _, _, _)
SkipLoop_NoUpperBound(b, ps, i, out, prev) ==
    IF i > Len(ps)
    THEN IF prev > Len(b) THEN Panic ELSE out \o SubSeq(b, prev + 1, Len(b))
    ELSE LET p == ps[i] IN
         IF p < 0 THEN SkipLoop_NoUpperBound(b, ps, i + 1, out, prev)
         ELSE IF prev > p \/ p > Len(b) THEN Panic
         ELSE SkipLoop_NoUpperBound(b, ps, i + 1, out \o SubSeq(b, prev + 1, p), p + 1)

\* The loop of sliceSkipAt over the sorted positions ps, from its i-th element:
\* out and prev are the loop's variables. b[prev:p] with prev > p is a slice
\* with inverted bounds, which panics at run time.
RECURSIVE SkipLoop(_, _, _, _, _)
SkipLoop(b, ps, i, out, prev) ==
    IF i > Len(ps) THEN out \o SubSeq(b, prev + 1, Len(b))
    ELSE LET p == ps[i] IN
         IF p < 0 \/ p >= Len(b) THEN SkipLoop(b, ps, i + 1, out, prev)
         ELSE IF prev > p THEN Panic
         ELSE SkipLoop(b, ps, i + 1, out \o SubSeq(b, prev + 1, p), p + 1)

\* sliceSkipAt returning nothing when it is given no positions.
sliceSkipAt_NilOnNone(s, positions) ==
    IF Len(positions) = 0 THEN << >>
    ELSE SkipLoop(s, sortInts(positions), 1, << >>, 0)

\* sliceSkipAt(s, positions...)
sliceSkipAt(s, positions) ==
    IF Len(positions) = 0 THEN s
    ELSE SkipLoop(s, sortInts(positions), 1, << >>, 0)

\* -------------------------------------------------------------- the engine

TwoPow(n) == 2 ^ n

\* uint64(uint32(a)): the low bits of a.
ToUnsigned(a) == a % TwoPow(IntBits)

\* The low bits of r read as an unsigned number.
ToSigned_Unsigned(r) == r % TwoPow(IntBits)

\* int(int32(r)): the low bits of r read as a two's-complement number.
ToSigned(r) ==
    LET m == r % TwoPow(IntBits)
    IN  IF m >= TwoPow(IntBits - 1) THEN m - TwoPow(IntBits) ELSE m

\* The exported functions, in the order cdx, rdx, bdx, ndx, mdx.
EngineFns == <<"cdx", "rdx", "bdx", "ndx", "mdx">>

FnIndex(f) == CHOOSE i \in 1..5 : EngineFns[i] = f

\* What can go wrong loading css.wasm before the exports are looked up.
LoadFaults == {"none", "compile", "instantiate"}

\* The position in EngineFns of the first export the module lacks (0: none).
FirstMissing(missing) ==
    IF \A i \in 1..5 : EngineFns[i] \notin missing THEN 0
    ELSE CHOOSE i \in 1..5 :
            /\ EngineFns[i] \in missing
            /\ \A j \in 1..(i - 1) : EngineFns[j] \notin missing

\* newTokenParser keeping the exports it found when one is missing.
newTokenParser_Degraded(loadFault, missing) ==
    IF loadFault = "compile"
    THEN [parser |-> FALSE, funcs |-> {}, rt |-> "closed",
          err |-> Wrap("compile wasm", <<"wazero">>)]
    ELSE IF loadFault = "instantiate"
    THEN [parser |-> FALSE, funcs |-> {}, rt |-> "closed",
          err |-> Wrap("instantiate wasm", <<"wazero">>)]
    ELSE [parser |-> TRUE, funcs |-> {EngineFns[i] : i \in 1..5} \ missing,
          rt |-> "open", err |-> ErrNil]

\* newTokenParser(): the runtime is created, css.wasm compiled and
\* instantiated, the five exports looked up in order; parser: a *tokenParser
\* is returned (FALSE: nil); funcs: the exports bound in it; rt: the state of
\* the runtime it created.
newTokenParser(loadFault, missing) ==
    IF loadFault = "compile"
    THEN [parser |-> FALSE, funcs |-> {}, rt |-> "closed",
          err |-> Wrap("compile wasm", <<"wazero">>)]
    ELSE IF loadFault = "instantiate"
    THEN [parser |-> FALSE, funcs |-> {}, rt |-> "closed",
          err |-> Wrap("instantiate wasm", <<"wazero">>)]
    ELSE IF FirstMissing(missing) # 0
    THEN [parser |-> FALSE, funcs |-> {}, rt |-> "closed",
          err |-> <<"export not found", EngineFns[FirstMissing(missing)]>>]
    ELSE [parser |-> TRUE, funcs |-> {EngineFns[i] : i \in 1..5},
          rt |-> "open", err |-> ErrNil]

\* NewManager(httpClient): manager: a *Manager is returned (FALSE: nil).
NewManager(loadFault, missing) ==
    LET p == newTokenParser(loadFault, missing)
    IN  IF p.err # ErrNil
        THEN [manager |-> FALSE, parser |-> p, err |-> Wrap("init wasm parser", p.err)]
        ELSE [manager |-> TRUE, parser |-> p, err |-> ErrNil]

\* A stand-in for the five exports of css.wasm (the module is an opaque
\* artifact): each is a pure function of its five unsigned arguments.
\* With c = d = e = 0 the i-th function returns a + (i-1)*b.
EngineFn(f, a, b, c, d, e) ==
    a + (FnIndex(f) - 1) * b + 1000 * (100 * c + 10 * d + e)

\* The arguments call5 hands to the function: uint64(uint32(x)) of each.
call5Args(a, b, c, d, e) ==
    <<ToUnsigned(a), ToUnsigned(b), ToUnsigned(c), ToUnsigned(d), ToUnsigned(e)>>

\* tokenParser.call5: the call's result, or Panic's sibling "err" when the
\* invocation fails (fails = TRUE: a trap or a closed runtime).
call5(f, a, b, c, d, e, fails) ==
    IF fails THEN [ok |-> FALSE, val |-> 0]
    ELSE [ok |-> TRUE,
          val |-> ToSigned(EngineFn(f, ToUnsigned(a), ToUnsigned(b),
                                    ToUnsigned(c), ToUnsigned(d), ToUnsigned(e)))]

\* Every function called with the salts in their original order.
accessCalls_NoSwap(s) ==
    [k \in 1..5 |-> <<EngineFns[k], s[1], s[2], s[3], s[4], s[5]>>]

\* rdx called like bdx, ndx and mdx.
refreshCalls_AllSwapped(s) ==
    << <<"cdx", s[2], s[1], s[3], s[5], s[4]>>,
       <<"rdx", s[2], s[1], s[4], s[3], s[5]>>,
       <<"bdx", s[2], s[1], s[4], s[3], s[5]>>,
       <<"ndx", s[2], s[1], s[4], s[3], s[5]>>,
       <<"mdx", s[2], s[1], s[4], s[3], s[5]>> >>

\* accessCalls and refreshCalls of indicesFromSalts: function and arguments.
accessCalls(s) ==
    << <<"cdx", s[1], s[2], s[3], s[4], s[5]>>,
       <<"rdx", s[1], s[2], s[4], s[3], s[5]>>,
       <<"bdx", s[1], s[2], s[4], s[3], s[5]>>,
       <<"ndx", s[1], s[2], s[4], s[3], s[5]>>,
       <<"mdx", s[1], s[2], s[4], s[3], s[5]>> >>

refreshCalls(s) ==
    << <<"cdx", s[2], s[1], s[3], s[5], s[4]>>,
       <<"rdx", s[2], s[1], s[3], s[4], s[5]>>,
       <<"bdx", s[2], s[1], s[4], s[3], s[5]>>,
       <<"ndx", s[2], s[1], s[4], s[3], s[5]>>,
       <<"mdx", s[2], s[1], s[4], s[3], s[5]>> >>

NumEngineCalls == Len(EngineFns) + Len(EngineFns)

\* The invocations indicesFromSalts(s) makes, in order: all of them, or those
\* up to and including the failing one, after which the loops return.
callsMade(s, failAt) ==
    SubSeq(accessCalls(s) \o refreshCalls(s), 1,
           IF failAt = 0 THEN NumEngineCalls ELSE failAt)

\* indicesFromSalts handing back, beside the error, the indices it had
\* computed before the failure.
indicesFromSalts_Partial(s, failAt) ==
    LET calls == accessCalls(s) \o refreshCalls(s)
        val(k) == call5(calls[k][1], calls[k][2], calls[k][3], calls[k][4],
                        calls[k][5], calls[k][6], FALSE).val
        n == IF failAt = 0 THEN NumEngineCalls ELSE failAt - 1
    IN  [ok |-> failAt = 0,
         access |-> [k \in 1..(IF n < 5 THEN n ELSE 5) |-> val(k)],
         refresh |-> [k \in 1..(IF n < 5 THEN 0 ELSE n - 5) |-> val(k + 5)]]

\* tokenParser.indicesFromSalts(s); failAt is the number of the invocation
\* that fails (1..10 in call order, 0 when none does).
indicesFromSalts(s, failAt) ==
    LET calls == accessCalls(s) \o refreshCalls(s)
        res == [k \in 1..NumEngineCalls |->
                   call5(calls[k][1], calls[k][2], calls[k][3], calls[k][4],
                         calls[k][5], calls[k][6], k = failAt)]
    IN  IF \E k \in 1..NumEngineCalls : ~res[k].ok
        THEN [ok |-> FALSE, access |-> << >>, refresh |-> << >>]
        ELSE [ok |-> TRUE,
              access |-> [k \in 1..5 |-> res[k].val],
              refresh |-> [k \in 1..5 |-> res[k + 5].val]]

\* Go's integer division truncates toward zero.
GoDiv(a, b) == IF a >= 0 THEN a \div b ELSE -((-a) \div b)

\* Manager.parseResponse(tr): (access, ts, err); access is Panic when
\* sliceSkipAt panics.
parseResponse(tr, failAt) ==
    LET idx == indicesFromSalts(tr.salts, failAt)
    IN  IF ~idx.ok
        THEN [access |-> << >>, ts |-> 0, err |-> Wrap("wasm parse", <<"engine call failed">>)]
        ELSE [access |-> sliceSkipAt(tr.accessToken, idx.access),
              ts |-> GoDiv(tr.serverTime, MillisPerSecond),
              err |-> ErrNil]

\* =================================================================== state

VARIABLES
    accessToken,   \* Manager.accessToken
    tokenTS,       \* Manager.tokenTS, in seconds (ZeroTime: never written)
    now,           \* the local clock, in seconds
    ticks,         \* clock advances so far
    sf,            \* Manager.sf: the call in flight under key "token_update"
    pc,            \* where each goroutine stands
    op,            \* the Manager method each goroutine is in
    cancelled,     \* whether the goroutine's ctx is done
    updErr,        \* the error m.update returns to the goroutine
    result,        \* what the goroutine's last Manager call returned
    fetchCount,    \* invocations of m.http.GetToken
    nCalls,        \* calls started
    crashed,       \* a panic has taken the process down
    maxRetries,    \* Options.MaxRetries
    api,           \* the goroutine's apiRequest frame
    tokenCalls,    \* HTTP attempts made against the token endpoint
    apiCalls,      \* HTTP attempts made against the API endpoint
    hist,          \* per call: what the call has done (observation only)
    herd,          \* every call so far: AccessToken, cache empty, none returned yet
    anyReturned,   \* some Manager call has returned
    cacheAtStart,  \* the cache when the body of the round in flight began
    calc           \* a call of a pure function: its arguments, then its result

mgrVars == <<accessToken, tokenTS, sf, pc, op, cancelled, updErr,
             result, fetchCount, nCalls, crashed, hist, herd, anyReturned,
             cacheAtStart>>
clientVars == <<maxRetries, api, tokenCalls, apiCalls>>
vars == <<accessToken, tokenTS, now, ticks, sf, pc, op, cancelled,
          updErr, result, fetchCount, nCalls, crashed, maxRetries, api,
          tokenCalls, apiCalls, hist, herd, anyReturned, cacheAtStart, calc>>

NoResult == [tok |-> << >>, err |-> ErrNil]
NoTok == <<-2>>
NoCache == <<NoTok, ZeroTime>>
\* role: the call's part in a single-flight round ("none": it entered none,
\* "led": it ran the round's body, "waited": it waited on another caller's
\* round); fetches: GetToken invocations the call made; startValid: the cache
\* was valid and no round in flight when the call began; waitCancel: ctx was
\* cancelled while the call waited; roundTok: the token the call's round
\* stored (NoTok: it stored none); roundErr: the error the round ended with;
\* respTime: <<tr.ServerTime>> of the response fn has just stored, until fn
\* returns (<< >> otherwise).
NoHist == [role |-> "none", fetches |-> 0, startValid |-> FALSE,
           waitCancel |-> FALSE, roundTok |-> NoTok, roundErr |-> ErrNil,
           respTime |-> << >>]
\* The frame of one apiRequest / apiRequestRaw call. stage: "none" (no call
\* yet), "first" (doAuthenticatedRequest with tokenRetry = false), "retry"
\* (the nested call with tokenRetry = true), "over" (returned); attempt and
\* lastErr: the loop variables of the doRequest in progress; ctxDone: the
\* call's ctx is done; err: what the call returned. Observation only: tries
\* (doAuthenticatedRequest invocations), fu (ForceUpdate invocations), seen
\* (the statuses doRequest handed to doAuthenticatedRequest), synced (every
\* token response of the call carried the local time as server time).
\* header: the Authorization header of the request handed to doRequest.
\* sent: the passes of doRequest's loop for the API request that reached
\* c.httpClient.Do.
NoHeader == [name |-> "", scheme |-> "", token |-> << >>]
NoApi == [stage |-> "none", attempt |-> 0, lastErr |-> ErrNil, ctxDone |-> FALSE,
          err |-> ErrNil, tries |-> 0, fu |-> 0, seen |-> << >>, synced |-> TRUE,
          header |-> NoHeader, sent |-> 0]

\* The header set with the usual scheme.
SetAuthHeader_Bearer(token) ==
    [name |-> "Authorization", scheme |-> "Bearer ", token |-> token]

\* SetAuthHeader(req, token): Authorization: "Salter " + token, the value
\* kept as its two parts.
SetAuthHeader(token) ==
    [name |-> "Authorization", scheme |-> "Salter ", token |-> token]

\* isValid with the boundary instant counted as valid.
IsValidAt_Inclusive(tok, ts, t) ==
    IF tok = << >> \/ ts = ZeroTime THEN FALSE
    ELSE t - ts <= DefaultTokenTTL

\* time.Since(ts) < ttl, with the two guards of Manager.isValid.
IsValidAt(tok, ts, t) ==
    IF tok = << >> \/ ts = ZeroTime THEN FALSE
    ELSE t - ts < DefaultTokenTTL

\* Manager.isValid()
isValid == IsValidAt(accessToken, tokenTS, now)

\* The acquisition body: the function handed to sf.Do, from its first
\* statement to its return.
BodyPCs == {"fetching", "tokBackoff", "fnRet"}
InBody(c) == pc[c] \in BodyPCs

\* NewManager: empty cache, no call in flight.
InitManager ==
    /\ accessToken = << >>
    /\ tokenTS = ZeroTime
    /\ now = StartTime
    /\ ticks = 0
    /\ sf = [active |-> FALSE]
    /\ pc = [c \in Callers |-> "idle"]
    /\ op = [c \in Callers |-> "none"]
    /\ cancelled = [c \in Callers |-> FALSE]
    /\ updErr = [c \in Callers |-> ErrNil]
    /\ result = [c \in Callers |-> NoResult]
    /\ fetchCount = 0
    /\ nCalls = 0
    /\ crashed = FALSE
    /\ api = [c \in Callers |-> NoApi]
    /\ tokenCalls = 0
    /\ apiCalls = 0
    /\ hist = [c \in Callers |-> NoHist]
    /\ herd = TRUE
    /\ anyReturned = FALSE
    /\ cacheAtStart = NoCache

\* No pure function is being evaluated.
NoCalc == [fn |-> "none"]

\* What rt.Close(ctx) of the engine library can return.
RuntimeCloseErrs == {ErrNil, <<"runtime close">>}

\* tokenParser.close(): return p.rt.Close(context.Background()). calls lists
\* the functions entered, outermost first.
parserClose(rt, rtErr) == [rt |-> "closed", err |-> rtErr, calls |-> <<"rt.Close">>]

\* Manager.Close skipping the parser.
ManagerClose_KeepEngine(hasParser, rt, rtErr) ==
    [rt |-> rt, err |-> ErrNil, calls |-> <<"Manager.Close">>]

\* Manager.Close(): if m.parser != nil { return m.parser.close() }; return nil
ManagerClose(hasParser, rt, rtErr) ==
    IF hasParser
    THEN [parserClose(rt, rtErr) EXCEPT
              !.calls = <<"Manager.Close", "parser.close">> \o @]
    ELSE [rt |-> rt, err |-> ErrNil, calls |-> <<"Manager.Close">>]

\* Client.Close(): if c.authManager != nil { return c.authManager.Close() };
\* return nil
ClientClose(hasManager, hasParser, rt, rtErr) ==
    IF hasManager
    THEN [ManagerClose(hasParser, rt, rtErr) EXCEPT !.calls = <<"Client.Close">> \o @]
    ELSE [rt |-> rt, err |-> ErrNil, calls |-> <<"Client.Close">>]

\* The manager's engine: rt is the state of the runtime NewManager created.
ManagerEngine == [fn |-> "Manager", rt |-> "open"]

\* The runtime of the manager's engine has been released.
EngineReleased == calc.fn = "Manager" /\ calc.rt = "closed"

\* The engine invocation of indicesFromSalts that may fail (0: none): any one
\* of them, and the first once the runtime is released (f.Call on a closed
\* module returns an error).
EngineFailures == IF EngineReleased THEN {1} ELSE 0..NumEngineCalls

Init ==
    /\ InitManager
    /\ maxRetries = 0
    /\ calc = NoCalc

\* ------------------------------------------------------------ the Manager

\* AccessToken without its fast path: every call goes to update.
AccessTokenEntry_AlwaysUpdate(c) ==
    /\ pc' = [pc EXCEPT ![c] = "sfDo"]
    /\ hist' = [hist EXCEPT ![c] = NoHist]

\* The entry of AccessToken: if m.isValid() { ... } else update.
AccessTokenEntry(c) ==
    IF isValid
    THEN /\ pc' = [pc EXCEPT ![c] = "atHit"]
         /\ hist' = [hist EXCEPT ![c] = [NoHist EXCEPT !.startValid = ~sf.active]]
    ELSE /\ pc' = [pc EXCEPT ![c] = "sfDo"]
         /\ hist' = [hist EXCEPT ![c] = NoHist]

\* The entry of ForceUpdate: return m.update(ctx).
ForceUpdateEntry(c) ==
    /\ pc' = [pc EXCEPT ![c] = "sfDo"]
    /\ hist' = [hist EXCEPT ![c] = [NoHist EXCEPT !.startValid = isValid /\ ~sf.active]]

\* A goroutine calls m.AccessToken(ctx) or m.ForceUpdate(ctx) with a live ctx.
Start(c, o) ==
    /\ ~crashed
    /\ pc[c] \in {"idle", "done"}
    /\ api[c].stage \in {"none", "over"}
    /\ nCalls < MaxCalls
    /\ nCalls' = nCalls + 1
    /\ op' = [op EXCEPT ![c] = o]
    /\ IF o = "AccessToken" THEN AccessTokenEntry(c) ELSE ForceUpdateEntry(c)
    /\ updErr' = [updErr EXCEPT ![c] = ErrNil]
    /\ result' = [result EXCEPT ![c] = NoResult]
    /\ herd' = (herd /\ o = "AccessToken" /\ accessToken = << >> /\ ~anyReturned)
    /\ UNCHANGED <<accessToken, tokenTS, now, ticks, sf, cancelled,
                   fetchCount, crashed, anyReturned, cacheAtStart>>
    /\ UNCHANGED <<clientVars, calc>>

\* A Manager call returns r to its caller.
Return(c, r) ==
    /\ result' = [result EXCEPT ![c] = r]
    /\ pc' = [pc EXCEPT ![c] = "done"]
    /\ cancelled' = [cancelled EXCEPT ![c] = FALSE]
    /\ updErr' = [updErr EXCEPT ![c] = ErrNil]
    /\ anyReturned' = TRUE

\* AccessToken: m.mu.RLock(); t := m.accessToken; m.mu.RUnlock(); return t, nil
AccessTokenHit(c) ==
    /\ ~crashed
    /\ pc[c] = "atHit"
    /\ Return(c, [tok |-> accessToken, err |-> ErrNil])
    /\ UNCHANGED <<accessToken, tokenTS, now, ticks, sf, op,
                   fetchCount, nCalls, crashed, hist, herd, cacheAtStart>>
    /\ UNCHANGED <<clientVars, calc>>

\* fn without its double check: it fetches whatever the cache holds.
FnEnter_NoRecheck(c) ==
    /\ cacheAtStart' = <<accessToken, tokenTS>>
    /\ pc' = [pc EXCEPT ![c] = "fetching"]
    /\ fetchCount' = fetchCount + 1
    /\ hist' = [hist EXCEPT ![c].role = "led", ![c].fetches = @ + 1]
    /\ UNCHANGED updErr

\* fn re-checking the cache only when ForceUpdate runs it: AccessToken has
\* looked already.
FnEnter_RecheckForcedOnly(c) ==
    /\ cacheAtStart' = <<accessToken, tokenTS>>
    /\ IF isValid /\ op[c] = "ForceUpdate"
       THEN /\ updErr' = [updErr EXCEPT ![c] = ErrNil]
            /\ pc' = [pc EXCEPT ![c] = "fnRet"]
            /\ hist' = [hist EXCEPT ![c].role = "led"]
            /\ UNCHANGED fetchCount
       ELSE /\ pc' = [pc EXCEPT ![c] = "fetching"]
            /\ fetchCount' = fetchCount + 1
            /\ hist' = [hist EXCEPT ![c].role = "led", ![c].fetches = @ + 1]
            /\ UNCHANGED updErr

\* The first statements of fn: if m.isValid() { return nil, nil }, else
\* m.http.GetToken(ctx) is invoked.
FnEnter(c) ==
    /\ cacheAtStart' = <<accessToken, tokenTS>>
    /\ IF isValid
       THEN /\ updErr' = [updErr EXCEPT ![c] = ErrNil]
            /\ pc' = [pc EXCEPT ![c] = "fnRet"]
            /\ hist' = [hist EXCEPT ![c].role = "led"]
            /\ UNCHANGED fetchCount
       ELSE /\ pc' = [pc EXCEPT ![c] = "fetching"]
            /\ fetchCount' = fetchCount + 1
            /\ hist' = [hist EXCEPT ![c].role = "led", ![c].fetches = @ + 1]
            /\ UNCHANGED updErr

\* update without the single-flight group: every caller runs fn itself.
SfDo_AlwaysLead(c) ==
    /\ ~crashed
    /\ pc[c] = "sfDo"
    /\ sf' = [active |-> TRUE]
    /\ FnEnter(c)
    /\ UNCHANGED <<accessToken, tokenTS, now, ticks, op, cancelled, result, nCalls,
                   crashed, herd, anyReturned>>
    /\ UNCHANGED <<clientVars, calc>>

\* update with one single-flight key per method: a caller joins the call in
\* flight only when the caller that runs it is in the same method.
SfDo_KeyPerMethod(c) ==
    /\ ~crashed
    /\ pc[c] = "sfDo"
    /\ IF sf.active /\ \E l \in Callers : InBody(l) /\ op[l] = op[c]
       THEN /\ pc' = [pc EXCEPT ![c] = "sfWait"]
            /\ hist' = [hist EXCEPT ![c].role = "waited"]
            /\ UNCHANGED <<sf, fetchCount, updErr, cacheAtStart>>
       ELSE /\ sf' = [active |-> TRUE]
            /\ FnEnter(c)
    /\ UNCHANGED <<accessToken, tokenTS, now, ticks, op, cancelled, result, nCalls,
                   crashed, herd, anyReturned>>
    /\ UNCHANGED <<clientVars, calc>>

\* update: m.sf.Do("token_update", fn). Under the group's mutex the caller
\* either finds the call in flight and waits for it, or creates the call and
\* runs fn itself.
SfDo(c) ==
    /\ ~crashed
    /\ pc[c] = "sfDo"
    /\ IF sf.active
       THEN /\ pc' = [pc EXCEPT ![c] = "sfWait"]
            /\ hist' = [hist EXCEPT ![c].role = "waited"]
            /\ UNCHANGED <<sf, fetchCount, updErr, cacheAtStart>>
       ELSE /\ sf' = [active |-> TRUE]
            /\ FnEnter(c)
    /\ UNCHANGED <<accessToken, tokenTS, now, ticks, op, cancelled, result, nCalls,
                   crashed, herd, anyReturned>>
    /\ UNCHANGED <<clientVars, calc>>

\* fn writing the raw token to the cache before it parses the response.
ParseAndStore_WriteFirst(c, tr, failAt) ==
    LET r == parseResponse(tr, failAt) IN
    /\ accessToken' = IF r.err # ErrNil \/ r.access = Panic THEN tr.accessToken
                      ELSE r.access
    /\ tokenTS' = now
    /\ hist' = [hist EXCEPT ![c].roundTok = accessToken',
                            ![c].respTime = <<tr.serverTime>>]
    /\ updErr' = [updErr EXCEPT ![c] = r.err]
    /\ pc' = [pc EXCEPT ![c] = "fnRet"]
    /\ UNCHANGED crashed

\* fn stamping the cache with the local clock whatever the server said.
ParseAndStore_LocalClock(c, tr, failAt) ==
    LET r == parseResponse(tr, failAt) IN
    IF r.err # ErrNil
    THEN /\ updErr' = [updErr EXCEPT ![c] = r.err]
         /\ pc' = [pc EXCEPT ![c] = "fnRet"]
         /\ UNCHANGED <<accessToken, tokenTS, crashed, hist>>
    ELSE IF r.access = Panic
    THEN /\ crashed' = TRUE
         /\ pc' = [pc EXCEPT ![c] = "panicked"]
         /\ UNCHANGED <<accessToken, tokenTS, updErr, hist>>
    ELSE /\ accessToken' = r.access
         /\ tokenTS' = now
         /\ hist' = [hist EXCEPT ![c].roundTok = r.access,
                                 ![c].respTime = <<tr.serverTime>>]
         /\ updErr' = [updErr EXCEPT ![c] = ErrNil]
         /\ pc' = [pc EXCEPT ![c] = "fnRet"]
         /\ UNCHANGED crashed

\* fn storing the token and leaving the timestamp for later.
ParseAndStore_TokenOnly(c, tr, failAt) ==
    LET r == parseResponse(tr, failAt) IN
    IF r.err # ErrNil
    THEN /\ updErr' = [updErr EXCEPT ![c] = r.err]
         /\ pc' = [pc EXCEPT ![c] = "fnRet"]
         /\ UNCHANGED <<accessToken, tokenTS, crashed, hist>>
    ELSE IF r.access = Panic
    THEN /\ crashed' = TRUE
         /\ pc' = [pc EXCEPT ![c] = "panicked"]
         /\ UNCHANGED <<accessToken, tokenTS, updErr, hist>>
    ELSE /\ accessToken' = r.access
         /\ hist' = [hist EXCEPT ![c].roundTok = r.access,
                                 ![c].respTime = <<tr.serverTime>>]
         /\ updErr' = [updErr EXCEPT ![c] = ErrNil]
         /\ pc' = [pc EXCEPT ![c] = "fnRet"]
         /\ UNCHANGED <<tokenTS, crashed>>

\* fn after a successful GetToken: access, ts, err := m.parseResponse(*resp),
\* then the cache write under m.mu.Lock(). A panic in sliceSkipAt is re-raised
\* by singleflight in the leader and in every waiter; nothing recovers it.
ParseAndStore(c, tr, failAt) ==
    LET r == parseResponse(tr, failAt) IN
    IF r.err # ErrNil
    THEN /\ updErr' = [updErr EXCEPT ![c] = r.err]
         /\ pc' = [pc EXCEPT ![c] = "fnRet"]
         /\ UNCHANGED <<accessToken, tokenTS, crashed, hist>>
    ELSE IF r.access = Panic
    THEN /\ crashed' = TRUE
         /\ pc' = [pc EXCEPT ![c] = "panicked"]
         /\ UNCHANGED <<accessToken, tokenTS, updErr, hist>>
    ELSE /\ accessToken' = r.access
         /\ tokenTS' = IF r.ts > 0 THEN r.ts ELSE now
         /\ hist' = [hist EXCEPT ![c].roundTok = r.access,
                                 ![c].respTime = <<tr.serverTime>>]
         /\ updErr' = [updErr EXCEPT ![c] = ErrNil]
         /\ pc' = [pc EXCEPT ![c] = "fnRet"]
         /\ UNCHANGED crashed

\* fn calling GetToken once more after its first failure.
FetchFailed_FetchAgain(c, err) ==
    IF hist[c].fetches < 2
    THEN /\ hist' = [hist EXCEPT ![c].fetches = @ + 1]
         /\ UNCHANGED <<updErr, pc, accessToken, tokenTS, crashed>>
    ELSE /\ updErr' = [updErr EXCEPT ![c] = Wrap("get token", err)]
         /\ pc' = [pc EXCEPT ![c] = "fnRet"]
         /\ UNCHANGED <<accessToken, tokenTS, crashed, hist>>

\* fn keeping the old token alive when GetToken fails: the timestamp is renewed.
FetchFailed_Restamp(c, err) ==
    /\ updErr' = [updErr EXCEPT ![c] = Wrap("get token", err)]
    /\ pc' = [pc EXCEPT ![c] = "fnRet"]
    /\ tokenTS' = now
    /\ UNCHANGED <<accessToken, crashed, hist>>

\* fn after a failed GetToken: return nil, fmt.Errorf("get token: %w", err)
FetchFailed(c, err) ==
    /\ updErr' = [updErr EXCEPT ![c] = Wrap("get token", err)]
    /\ pc' = [pc EXCEPT ![c] = "fnRet"]
    /\ UNCHANGED <<accessToken, tokenTS, crashed, hist>>

\* What m.http.GetToken can fail with, as the Manager sees it.
FetchErrKinds == {"network"}

\* Salts for which the stand-in engine returns the access positions 0,2,4,6,8,
\* and salts for which it returns position 0 five times.
SaltsStrip == <<0, 2, 0, 0, 0>>
SaltsDup == <<0, 0, 0, 0, 0>>

\* The server times of a response at local time t: absent (zero, or a
\* millisecond before the epoch), equal to the client's clock (to the second),
\* or lagging it by a second less than a TTL or by a whole TTL.
ServerTimes(t) ==
    {0, 0 - 1, t * MillisPerSecond + (MillisPerSecond - 1),
     (t - (DefaultTokenTTL - 1)) * MillisPerSecond,
     (t - DefaultTokenTTL) * MillisPerSecond}

\* The token responses the server may give to fetch number n at local time t:
\* a token whose clean form is <<n>> or empty.
Responses(n, t) ==
    {[salts |-> SaltsStrip, accessToken |-> <<Junk, n>>, serverTime |-> st] :
        st \in ServerTimes(t)}
    \cup {[salts |-> sl, accessToken |-> tk, serverTime |-> t * MillisPerSecond] :
            sl \in {SaltsStrip, SaltsDup}, tk \in {<<Junk>>, <<Junk, n>>}}

\* resp, err := m.http.GetToken(ctx) returns, the caller being any NepseHTTP:
\* an error (the context's when ctx is done) or a response, which fn parses
\* and stores.
HTTPGetToken(c) ==
    /\ ~crashed
    /\ pc[c] = "fetching"
    /\ \/ \E k \in (IF cancelled[c] THEN {"canceled"} ELSE FetchErrKinds) :
               FetchFailed(c, <<k>>)
       \/ /\ ~cancelled[c]
          /\ \E tr \in Responses(fetchCount, now), failAt \in EngineFailures :
               ParseAndStore(c, tr, failAt)
    /\ UNCHANGED <<now, ticks, sf, op, cancelled, result, fetchCount,
                   nCalls, herd, anyReturned, cacheAtStart>>
    /\ UNCHANGED <<clientVars, calc>>

\* The goroutines blocked in c.wg.Wait() on the call in flight.
Waiters == {w \in Callers : pc[w] = "sfWait"}

\* singleflight's doCall after fn returned: under the group's mutex the call
\* is completed (c.err set, c.wg.Done()) and removed from the map; every
\* waiter is released with the call's error.
FnReturn(c) ==
    /\ ~crashed
    /\ pc[c] = "fnRet"
    /\ sf' = [active |-> FALSE]
    /\ cacheAtStart' = NoCache
    /\ pc' = [w \in Callers |->
                IF w = c \/ w \in Waiters THEN "updRet" ELSE pc[w]]
    /\ updErr' = [w \in Callers |->
                IF w \in Waiters THEN updErr[c] ELSE updErr[w]]
    /\ hist' = [w \in Callers |->
                IF w = c \/ w \in Waiters
                THEN [hist[w] EXCEPT !.roundTok = hist[c].roundTok,
                                     !.roundErr = updErr[c],
                                     !.respTime = << >>]
                ELSE hist[w]]
    /\ UNCHANGED <<accessToken, tokenTS, now, ticks, op, cancelled,
                   result, fetchCount, nCalls, crashed, herd, anyReturned>>
    /\ UNCHANGED <<clientVars, calc>>

\* What AccessToken returns once update has returned err: the error, or the
\* token it then reads under m.mu.RLock().
AfterUpdate(err, tok) ==
    IF err # ErrNil THEN [tok |-> << >>, err |-> err]
    ELSE IF tok = << >> THEN [tok |-> << >>, err |-> <<"empty access token after update">>]
    ELSE [tok |-> tok, err |-> ErrNil]

\* update has returned: ForceUpdate returns its error, AccessToken reads the
\* cache and returns.
UpdateReturn(c) ==
    /\ ~crashed
    /\ pc[c] = "updRet"
    /\ Return(c, IF op[c] = "ForceUpdate" THEN [tok |-> << >>, err |-> updErr[c]]
                 ELSE AfterUpdate(updErr[c], accessToken))
    /\ UNCHANGED <<accessToken, tokenTS, now, ticks, sf, op,
                   fetchCount, nCalls, crashed, hist, herd, cacheAtStart>>
    /\ UNCHANGED <<clientVars, calc>>

\* The caller's ctx is cancelled (or its deadline passes) while the call is
\* in m.update: driving the fetch, or waiting on another caller's round.
Cancel(c) ==
    /\ ~crashed
    /\ pc[c] \in {"fetching", "sfWait"}
    /\ ~cancelled[c]
    /\ cancelled' = [cancelled EXCEPT ![c] = TRUE]
    /\ hist' = [hist EXCEPT ![c].waitCancel = (pc[c] = "sfWait")]
    /\ UNCHANGED <<accessToken, tokenTS, now, ticks, sf, pc, op,
                   updErr, result, fetchCount, nCalls, crashed, herd, anyReturned,
                   cacheAtStart>>
    /\ UNCHANGED <<clientVars, calc>>

\* Time passes, a second at a time.
TickSteps == {1}

Tick ==
    /\ ~crashed
    /\ ticks < MaxTicks
    /\ ticks' = ticks + 1
    /\ \E d \in TickSteps : now' = now + d
    /\ UNCHANGED mgrVars
    /\ UNCHANGED <<clientVars, calc>>

Ops == {"AccessToken", "ForceUpdate"}

Next ==
    \/ \E c \in Callers, o \in Ops : Start(c, o)
    \/ \E c \in Callers : AccessTokenHit(c)
    \/ \E c \in Callers : SfDo(c)
    \/ \E c \in Callers : HTTPGetToken(c)
    \/ \E c \in Callers : FnReturn(c)
    \/ \E c \in Callers : UpdateReturn(c)
    \/ \E c \in Callers : Cancel(c)
    \/ Tick

Spec == Init /\ [][Next]_vars

\* Fair scheduling: a goroutine that can take its next step eventually takes
\* it, and every m.http.GetToken invocation eventually returns.
Fairness ==
    \A c \in Callers :
        /\ WF_vars(AccessTokenHit(c))
        /\ WF_vars(SfDo(c))
        /\ WF_vars(HTTPGetToken(c))
        /\ WF_vars(FnReturn(c))
        /\ WF_vars(UpdateReturn(c))

SpecFair == Init /\ [][Next]_vars /\ Fairness

\* A manager with its engine, shared by goroutines that call AccessToken,
\* ForceUpdate and Close.
InitClose ==
    /\ InitManager
    /\ maxRetries = 0
    /\ calc = ManagerEngine

\* Some goroutine calls m.Close(): no lock is taken, no call in progress is
\* waited for.
Close ==
    /\ ~crashed
    /\ calc.fn = "Manager"
    /\ \E e \in RuntimeCloseErrs :
           calc' = [calc EXCEPT !.rt = ManagerClose(TRUE, calc.rt, e).rt]
    /\ UNCHANGED <<mgrVars, now, ticks, clientVars>>

NextClose ==
    \/ \E c \in Callers, o \in Ops : Start(c, o)
    \/ \E c \in Callers : AccessTokenHit(c)
    \/ \E c \in Callers : SfDo(c)
    \/ \E c \in Callers : HTTPGetToken(c)
    \/ \E c \in Callers : FnReturn(c)
    \/ \E c \in Callers : UpdateReturn(c)
    \/ Tick
    \/ Close

SpecClose == InitClose /\ [][NextClose]_vars

\* -------------------------------------------------------------- the Client

StatusOK == 200
StatusBadRequest == 400
StatusUnauthorized == 401
StatusForbidden == 403
StatusNotFound == 404
StatusTooManyRequests == 429
StatusInternalServerError == 500
StatusBadGateway == 502
StatusServiceUnavailable == 503
StatusGatewayTimeout == 504
\* Statuses MapHTTPStatusToError has no case for: one below 500, one above.
StatusTeapot == 418
StatusNotImplemented == 501
\* No status: c.httpClient.Do returned an error instead of a response.
NoStatus == 0

\* NewNepseError(errorType, message, err): the type, the message, the cause.
NewNepseError(errorType, message, err) == <<errorType, message>> \o err
ErrType(e) == IF e = ErrNil THEN "nil" ELSE e[1]

NewInternalError(message, err) == NewNepseError("internal_error", message, err)
NewNetworkError(err) == NewNepseError("network_error", "network request failed", err)

\* Every status mapped by its class alone.
MapHTTPStatusToError_ByClass(statusCode) ==
    IF statusCode >= StatusInternalServerError
    THEN NewNepseError("invalid_server_response", "server error", ErrNil)
    ELSE NewNepseError("internal_error", "unexpected status code", ErrNil)

\* MapHTTPStatusToError(statusCode, resp.Status)
MapHTTPStatusToError(statusCode) ==
    IF statusCode = StatusBadRequest
    THEN NewNepseError("invalid_client_request", "status text", ErrNil)
    ELSE IF statusCode = StatusUnauthorized
    THEN NewNepseError("token_expired", "access token expired", ErrNil)
    ELSE IF statusCode = StatusForbidden
    THEN NewNepseError("unauthorized", "status text", ErrNil)
    ELSE IF statusCode = StatusNotFound
    THEN NewNepseError("not_found", "resource not found", ErrNil)
    ELSE IF statusCode = StatusTooManyRequests
    THEN NewNepseError("rate_limit", "rate limit exceeded", ErrNil)
    ELSE IF statusCode = StatusBadGateway
    THEN NewNepseError("invalid_server_response", "status text", ErrNil)
    ELSE IF statusCode = StatusServiceUnavailable
    THEN NewNepseError("invalid_server_response", "service unavailable", ErrNil)
    ELSE IF statusCode = StatusGatewayTimeout
    THEN NewNepseError("invalid_server_response", "gateway timeout", ErrNil)
    ELSE IF statusCode >= StatusInternalServerError
    THEN NewNepseError("invalid_server_response", "server error", ErrNil)
    ELSE NewNepseError("internal_error", "unexpected status code", ErrNil)

\* The retry test of doRequest applied to every status but 429.
Retryable_Only5xx(statusCode) == statusCode >= StatusInternalServerError

\* doRequest: retry on server errors and rate limits.
Retryable(statusCode) ==
    statusCode >= StatusInternalServerError \/ statusCode = StatusTooManyRequests

\* req.Context().Err()
CtxErr == <<"context canceled">>

\* What httpClient.Do fails with: the context's error once ctx is done, a
\* transport failure otherwise.
DoErrs(ctxDone) == IF ctxDone THEN {CtxErr} ELSE {<<"connection refused">>}

\* The statuses the API endpoint and the token endpoint answer with.
ApiStatuses == {StatusOK, StatusUnauthorized, StatusNotFound, StatusServiceUnavailable}
TokenStatuses == {StatusOK, StatusForbidden, StatusServiceUnavailable}

\* The token responses the endpoint gives to fetch number n at local time t:
\* a token whose clean form is <<n>> or empty, stamped with the local time or
\* with a time a whole TTL behind it.
ClientResponses(n, t) ==
    {r \in Responses(n, t) :
        /\ r.salts = SaltsStrip
        /\ GoDiv(r.serverTime, MillisPerSecond) \in {t, t - DefaultTokenTTL}}

\* initClient(options): client: a *Client is returned (FALSE: nil).
initClient(loadFault, missing) ==
    LET m == NewManager(loadFault, missing)
    IN  IF m.err # ErrNil
        THEN [client |-> FALSE, manager |-> m,
              err |-> NewInternalError("failed to create auth manager", m.err)]
        ELSE [client |-> TRUE, manager |-> m, err |-> ErrNil]

\* NewClient(options) with MaxRetries in 0..MaxRetriesBound.
InitClient ==
    /\ InitManager
    /\ maxRetries \in 0..MaxRetriesBound
    /\ calc = NoCalc

\* apiRequest / apiRequestRaw return err to the caller; seen is what the call
\* has been answered. The frames of the Manager calls it made are gone.
ApiReturn(c, err, seen) ==
    /\ api' = [api EXCEPT ![c].stage = "over", ![c].err = err, ![c].attempt = 0,
                          ![c].lastErr = ErrNil, ![c].ctxDone = FALSE,
                          ![c].seen = seen, ![c].header = NoHeader]
    /\ pc' = [pc EXCEPT ![c] = "done"]
    /\ result' = [result EXCEPT ![c] = NoResult]
    /\ hist' = [hist EXCEPT ![c] = NoHist]
    /\ op' = [op EXCEPT ![c] = "none"]
    /\ UNCHANGED <<cancelled, updErr>>

\* A goroutine calls apiRequest(ctx, endpoint, result) with a live ctx:
\* doAuthenticatedRequest(ctx, endpoint, false), whose first statement is
\* c.authManager.AccessToken(ctx).
ApiStart(c) ==
    /\ ~crashed
    /\ pc[c] \in {"idle", "done"}
    /\ api[c].stage \in {"none", "over"}
    /\ nCalls < MaxApiCalls
    /\ nCalls' = nCalls + 1
    /\ api' = [api EXCEPT ![c] = [NoApi EXCEPT !.stage = "first", !.tries = 1]]
    /\ op' = [op EXCEPT ![c] = "AccessToken"]
    /\ AccessTokenEntry(c)
    /\ updErr' = [updErr EXCEPT ![c] = ErrNil]
    /\ result' = [result EXCEPT ![c] = NoResult]
    /\ herd' = (herd /\ accessToken = << >> /\ ~anyReturned)
    /\ UNCHANGED <<accessToken, tokenTS, now, ticks, sf, cancelled,
                   fetchCount, crashed, anyReturned, cacheAtStart,
                   maxRetries, calc, tokenCalls, apiCalls>>

\* doAuthenticatedRequest after AccessToken returned: the error wrapped, or
\* the request built and handed to doRequest.
ApiAfterToken(c) ==
    /\ ~crashed
    /\ pc[c] = "done"
    /\ op[c] = "AccessToken"
    /\ api[c].stage \in {"first", "retry"}
    /\ IF result[c].err # ErrNil
       THEN ApiReturn(c, NewInternalError("failed to get access token", result[c].err),
                      api[c].seen)
       ELSE /\ pc' = [pc EXCEPT ![c] = "apiDo"]
            /\ api' = [api EXCEPT ![c].attempt = 0, ![c].lastErr = ErrNil,
                                  ![c].header = SetAuthHeader(result[c].tok),
                                  ![c].sent = @ + 1]
            /\ UNCHANGED <<op, cancelled, updErr, result, hist>>
    /\ UNCHANGED <<accessToken, tokenTS, now, ticks, sf, fetchCount, nCalls,
                   crashed, herd, anyReturned, cacheAtStart, maxRetries, calc,
                   tokenCalls, apiCalls>>

\* doRequest's "continue" after a failed attempt of the API request: the loop
\* ends with lastErr when the budget is spent, else it waits for the backoff.
ApiRetry(c, e) ==
    IF api[c].attempt + 1 > maxRetries
    THEN ApiReturn(c, e, api[c].seen)
    ELSE /\ api' = [api EXCEPT ![c].attempt = @ + 1, ![c].lastErr = e]
         /\ pc' = [pc EXCEPT ![c] = "apiBackoff"]
         /\ UNCHANGED <<op, cancelled, updErr, result, hist>>

\* The 401 test with tokenRetry not consulted.
NeedsRefresh_IgnoreRetry(statusCode, tokenRetry) ==
    statusCode = StatusUnauthorized

\* resp.StatusCode == http.StatusUnauthorized && !tokenRetry
NeedsRefresh(statusCode, tokenRetry) ==
    statusCode = StatusUnauthorized /\ ~tokenRetry

\* doAuthenticatedRequest after doRequest returned a response: on 401 of the
\* first attempt ForceUpdate is called; any other status but 200 is mapped
\* to its error; a 200 is decoded by apiRequest.
ApiResponse(c, statusCode) ==
    LET seen == Append(api[c].seen, statusCode) IN
    IF NeedsRefresh(statusCode, api[c].stage = "retry")
    THEN /\ api' = [api EXCEPT ![c].seen = seen, ![c].fu = @ + 1,
                               ![c].attempt = 0, ![c].lastErr = ErrNil,
                               ![c].header = NoHeader]
         /\ op' = [op EXCEPT ![c] = "ForceUpdate"]
         /\ ForceUpdateEntry(c)
         /\ updErr' = [updErr EXCEPT ![c] = ErrNil]
         /\ result' = [result EXCEPT ![c] = NoResult]
         /\ UNCHANGED cancelled
    ELSE IF statusCode # StatusOK
    THEN ApiReturn(c, MapHTTPStatusToError(statusCode), seen)
    ELSE \E e \in {ErrNil, NewInternalError("failed to decode response", <<"json">>)} :
             ApiReturn(c, e, seen)

\* One pass of doRequest's loop for the API request: c.httpClient.Do(req),
\* req carrying api[c].header, fails, or the endpoint answers.
ApiDo(c) ==
    /\ ~crashed
    /\ pc[c] = "apiDo"
    /\ tokenCalls + apiCalls < MaxAttempts
    /\ apiCalls' = apiCalls + 1
    /\ \/ \E e \in DoErrs(api[c].ctxDone) : ApiRetry(c, NewNetworkError(e))
       \/ /\ ~api[c].ctxDone
          /\ \E statusCode \in ApiStatuses :
                IF Retryable(statusCode)
                THEN ApiRetry(c, MapHTTPStatusToError(statusCode))
                ELSE ApiResponse(c, statusCode)
    /\ UNCHANGED <<accessToken, tokenTS, now, ticks, sf, fetchCount, nCalls,
                   crashed, herd, anyReturned, cacheAtStart, maxRetries, calc, tokenCalls>>

\* doRequest's select before a retry of the API request: ctx done, or the
\* timer fires.
ApiBackoff(c) ==
    /\ ~crashed
    /\ pc[c] = "apiBackoff"
    /\ IF api[c].ctxDone
       THEN ApiReturn(c, CtxErr, api[c].seen)
       ELSE /\ pc' = [pc EXCEPT ![c] = "apiDo"]
            /\ api' = [api EXCEPT ![c].sent = @ + 1]
            /\ UNCHANGED <<op, cancelled, updErr, result, hist>>
    /\ UNCHANGED <<accessToken, tokenTS, now, ticks, sf, fetchCount, nCalls,
                   crashed, herd, anyReturned, cacheAtStart, maxRetries, calc,
                   tokenCalls, apiCalls>>

\* The nested call made with tokenRetry = false.
ApiAfterRefresh_NotMarked(c) ==
    /\ ~crashed
    /\ pc[c] = "done"
    /\ op[c] = "ForceUpdate"
    /\ api[c].stage \in {"first", "retry"}
    /\ IF result[c].err # ErrNil
       THEN ApiReturn(c, NewInternalError("failed to refresh token", result[c].err),
                      api[c].seen)
       ELSE /\ api' = [api EXCEPT ![c].tries = @ + 1]
            /\ op' = [op EXCEPT ![c] = "AccessToken"]
            /\ AccessTokenEntry(c)
            /\ cancelled' = [cancelled EXCEPT ![c] = api[c].ctxDone]
            /\ updErr' = [updErr EXCEPT ![c] = ErrNil]
            /\ result' = [result EXCEPT ![c] = NoResult]
    /\ UNCHANGED <<accessToken, tokenTS, now, ticks, sf, fetchCount, nCalls,
                   crashed, herd, anyReturned, cacheAtStart, maxRetries, calc,
                   tokenCalls, apiCalls>>

\* doAuthenticatedRequest after ForceUpdate returned: the error wrapped, or
\* the nested doAuthenticatedRequest(ctx, endpoint, true), which begins with
\* AccessToken.
ApiAfterRefresh(c) ==
    /\ ~crashed
    /\ pc[c] = "done"
    /\ op[c] = "ForceUpdate"
    /\ api[c].stage \in {"first", "retry"}
    /\ IF result[c].err # ErrNil
       THEN ApiReturn(c, NewInternalError("failed to refresh token", result[c].err),
                      api[c].seen)
       ELSE /\ api' = [api EXCEPT ![c].stage = "retry", ![c].tries = @ + 1]
            /\ op' = [op EXCEPT ![c] = "AccessToken"]
            /\ AccessTokenEntry(c)
            /\ cancelled' = [cancelled EXCEPT ![c] = api[c].ctxDone]
            /\ updErr' = [updErr EXCEPT ![c] = ErrNil]
            /\ result' = [result EXCEPT ![c] = NoResult]
    /\ UNCHANGED <<accessToken, tokenTS, now, ticks, sf, fetchCount, nCalls,
                   crashed, herd, anyReturned, cacheAtStart, maxRetries, calc,
                   tokenCalls, apiCalls>>

\* doRequest's "continue" after a failed attempt of the token request:
\* Client.Token returns lastErr when the budget is spent.
TokenRetry(c, e) ==
    IF api[c].attempt + 1 > maxRetries
    THEN /\ FetchFailed(c, e)
         /\ api' = [api EXCEPT ![c].attempt = 0, ![c].lastErr = ErrNil]
    ELSE /\ api' = [api EXCEPT ![c].attempt = @ + 1, ![c].lastErr = e]
         /\ pc' = [pc EXCEPT ![c] = "tokBackoff"]
         /\ UNCHANGED <<accessToken, tokenTS, crashed, hist, updErr>>

\* Client.Token after doRequest returned a response: a status other than 200
\* is mapped to its error, a body that does not decode is an internal error,
\* else the TokenResponse goes back to fn, which parses and stores it.
TokenResponded(c, statusCode) ==
    IF statusCode # StatusOK
    THEN /\ FetchFailed(c, MapHTTPStatusToError(statusCode))
         /\ api' = [api EXCEPT ![c].attempt = 0, ![c].lastErr = ErrNil]
    ELSE \/ /\ FetchFailed(c, NewInternalError("failed to decode token response", <<"json">>))
            /\ api' = [api EXCEPT ![c].attempt = 0, ![c].lastErr = ErrNil]
         \/ \E tr \in ClientResponses(fetchCount, now) :
               /\ ParseAndStore(c, tr, 0)
               /\ api' = [api EXCEPT ![c].attempt = 0, ![c].lastErr = ErrNil,
                            ![c].synced = @ /\ GoDiv(tr.serverTime, MillisPerSecond) = now]

\* One pass of doRequest's loop for the token request, inside Client.Token
\* (the NepseHTTP the Manager fetches through): c.httpClient.Do(req) fails, or
\* the token endpoint answers.
TokenDo(c) ==
    /\ ~crashed
    /\ pc[c] = "fetching"
    /\ tokenCalls + apiCalls < MaxAttempts
    /\ tokenCalls' = tokenCalls + 1
    /\ \/ \E e \in DoErrs(cancelled[c]) : TokenRetry(c, NewNetworkError(e))
       \/ /\ ~cancelled[c]
          /\ \E statusCode \in TokenStatuses :
                IF Retryable(statusCode)
                THEN TokenRetry(c, MapHTTPStatusToError(statusCode))
                ELSE TokenResponded(c, statusCode)
    /\ UNCHANGED <<now, ticks, sf, op, cancelled, result, fetchCount,
                   nCalls, herd, anyReturned, cacheAtStart, maxRetries, calc, apiCalls>>

\* doRequest's select before a retry of the token request.
TokenBackoff(c) ==
    /\ ~crashed
    /\ pc[c] = "tokBackoff"
    /\ IF cancelled[c]
       THEN /\ FetchFailed(c, CtxErr)
            /\ api' = [api EXCEPT ![c].attempt = 0, ![c].lastErr = ErrNil]
       ELSE /\ pc' = [pc EXCEPT ![c] = "fetching"]
            /\ UNCHANGED <<accessToken, tokenTS, crashed, hist, updErr, api>>
    /\ UNCHANGED <<now, ticks, sf, op, cancelled, result, fetchCount,
                   nCalls, herd, anyReturned, cacheAtStart, maxRetries, calc,
                   tokenCalls, apiCalls>>

\* The ctx of an apiRequest call is cancelled while the call is at the
\* network or waits on another caller's round.
ClientCancel(c) ==
    /\ ~crashed
    /\ pc[c] \in {"fetching", "tokBackoff", "sfWait", "apiDo", "apiBackoff"}
    /\ ~api[c].ctxDone
    /\ api' = [api EXCEPT ![c].ctxDone = TRUE]
    /\ cancelled' = [cancelled EXCEPT ![c] = pc[c] \in {"fetching", "tokBackoff", "sfWait"}]
    /\ hist' = [hist EXCEPT ![c].waitCancel = (pc[c] = "sfWait")]
    /\ UNCHANGED <<accessToken, tokenTS, now, ticks, sf, pc, op,
                   updErr, result, fetchCount, nCalls, crashed, herd, anyReturned,
                   cacheAtStart, maxRetries, calc, tokenCalls, apiCalls>>

NextClient ==
    \/ \E c \in Callers : ApiStart(c)
    \/ \E c \in Callers : AccessTokenHit(c)
    \/ \E c \in Callers : SfDo(c)
    \/ \E c \in Callers : TokenDo(c)
    \/ \E c \in Callers : TokenBackoff(c)
    \/ \E c \in Callers : FnReturn(c)
    \/ \E c \in Callers : UpdateReturn(c)
    \/ \E c \in Callers : ApiAfterToken(c)
    \/ \E c \in Callers : ApiDo(c)
    \/ \E c \in Callers : ApiBackoff(c)
    \/ \E c \in Callers : ApiAfterRefresh(c)
    \/ \E c \in Callers : ClientCancel(c)

SpecClient == InitClient /\ [][NextClient]_vars

\* ------------------------------------------------- the functions by themselves

\* The sequences over S of length at most n.
SeqsUpTo(S, n) == UNION {[1..k -> S] : k \in 0..n}

Bytes == 1..NumBytes
Strings == SeqsUpTo(Bytes, MaxStrLen)
\* Positions: one below every string, those inside the longest string, and
\* one at or past the end of every string.
Positions == (0 - 1)..MaxStrLen
PositionLists == SeqsUpTo(Positions, MaxPositions)

\* The calls sliceSkipAt(s, positions...) about to be made.
CodecCalls ==
    {[fn |-> "sliceSkipAt", done |-> FALSE, s |-> s, positions |-> ps, out |-> << >>] :
        s \in Strings, ps \in PositionLists}

\* The salt tuples of a token response.
SaltTuples == [1..5 -> 1..MaxSalt]

\* The calls parseResponse(tr) about to be made, with the engine invocation
\* that is going to fail (0: none).
EngineCalls ==
    {[fn |-> "parseResponse", done |-> FALSE,
      tr |-> [salts |-> sl, accessToken |-> <<Junk, 1>>,
              serverTime |-> StartTime * MillisPerSecond],
      failAt |-> f, trace |-> << >>,
      idx |-> [ok |-> FALSE, access |-> << >>, refresh |-> << >>],
      out |-> [access |-> << >>, ts |-> 0, err |-> ErrNil]] :
        sl \in SaltTuples, f \in 0..NumEngineCalls}

\* Go ints at and around the edges of the engine's integer width: negative,
\* small, at the sign bit, at the top of the unsigned range and beyond it.
WideInts ==
    {0 - 1, 0, 1, TwoPow(IntBits - 1) - 1, TwoPow(IntBits - 1),
     TwoPow(IntBits) - 1, TwoPow(IntBits), TwoPow(IntBits) + 1}

\* Go ints that the conversion turns into 0 or 1.
WrappedSmall == {0, 1, TwoPow(IntBits), TwoPow(IntBits) + 1}

\* The calls call5(f, a, b, c, d, e) about to be made.
Call5Calls ==
    {[fn |-> "call5", done |-> FALSE, f |-> f, args |-> <<a, b, c, d, e>>,
      passed |-> << >>, out |-> [ok |-> FALSE, val |-> 0]] :
        f \in {EngineFns[k] : k \in 1..5}, a \in WideInts, b \in WideInts,
        c \in WrappedSmall, d \in WrappedSmall, e \in WrappedSmall}

\* The constructions initClient(options) about to be made, with what is
\* wrong with the embedded module.
ConstructCalls ==
    {[fn |-> "initClient", done |-> FALSE, loadFault |-> lf, missing |-> ms,
      out |-> [client |-> FALSE]] :
        lf \in LoadFaults, ms \in SUBSET {EngineFns[i] : i \in 1..5}}

\* The Close calls about to be made: on a client or on a manager, the client
\* with or without a manager, the manager with or without a parser, the
\* parser's runtime open or already closed ("none": there is no runtime),
\* with what rt.Close will return.
CloseCalls ==
    LET all == {[fn |-> "Close", done |-> FALSE, on |-> o, hasManager |-> hm,
                 hasParser |-> hp, rt |-> rt, rtErr |-> e,
                 out |-> [rt |-> rt, err |-> <<"pending">>, calls |-> << >>]] :
                   o \in {"Client", "Manager"}, hm \in BOOLEAN, hp \in BOOLEAN,
                   rt \in {"open", "closed", "none"}, e \in RuntimeCloseErrs}
    IN  {k \in all : /\ (k.rt # "none") = (k.hasManager /\ k.hasParser)
                     /\ k.hasParser => k.hasManager
                     /\ k.on = "Manager" => k.hasManager}

InitPure ==
    /\ InitManager
    /\ maxRetries = 0
    /\ \/ calc \in CodecCalls
       \/ calc \in EngineCalls
       \/ calc \in Call5Calls
       \/ calc \in ConstructCalls
       \/ calc \in CloseCalls

\* sliceSkipAt(s, positions...) runs and returns (or panics).
CallSliceSkipAt ==
    /\ calc.fn = "sliceSkipAt"
    /\ ~calc.done
    /\ calc' = [calc EXCEPT !.done = TRUE, !.out = sliceSkipAt(calc.s, calc.positions)]
    /\ UNCHANGED <<mgrVars, now, ticks, clientVars>>

\* parseResponse(tr) runs: indicesFromSalts makes its invocations and
\* returns, then parseResponse returns.
CallParseResponse ==
    /\ calc.fn = "parseResponse"
    /\ ~calc.done
    /\ calc' = [calc EXCEPT !.done = TRUE,
                            !.trace = callsMade(calc.tr.salts, calc.failAt),
                            !.idx = indicesFromSalts(calc.tr.salts, calc.failAt),
                            !.out = parseResponse(calc.tr, calc.failAt)]
    /\ UNCHANGED <<mgrVars, now, ticks, clientVars>>

\* call5(f, a, b, c, d, e) runs and the function answers.
CallCall5 ==
    /\ calc.fn = "call5"
    /\ ~calc.done
    /\ LET x == calc.args IN
       calc' = [calc EXCEPT !.done = TRUE,
                            !.passed = call5Args(x[1], x[2], x[3], x[4], x[5]),
                            !.out = call5(calc.f, x[1], x[2], x[3], x[4], x[5], FALSE)]
    /\ UNCHANGED <<mgrVars, now, ticks, clientVars>>

\* initClient(options) runs: NewManager, and in it newTokenParser, run and
\* return.
CallInitClient ==
    /\ calc.fn = "initClient"
    /\ ~calc.done
    /\ calc' = [calc EXCEPT !.done = TRUE,
                            !.out = initClient(calc.loadFault, calc.missing)]
    /\ UNCHANGED <<mgrVars, now, ticks, clientVars>>

\* c.Close() or m.Close() runs and returns.
CallClose ==
    /\ calc.fn = "Close"
    /\ ~calc.done
    /\ calc' = [calc EXCEPT
                   !.done = TRUE,
                   !.out = IF calc.on = "Client"
                           THEN ClientClose(calc.hasManager, calc.hasParser,
                                            calc.rt, calc.rtErr)
                           ELSE ManagerClose(calc.hasParser, calc.rt, calc.rtErr)]
    /\ UNCHANGED <<mgrVars, now, ticks, clientVars>>

NextPure ==
    \/ CallSliceSkipAt
    \/ CallParseResponse
    \/ CallCall5
    \/ CallInitClient
    \/ CallClose

SpecPure == InitPure /\ [][NextPure]_vars

\* ------------------------------------------------- Client.Token by itself

\* Every status the token endpoint may answer with.
EndpointStatuses ==
    {StatusOK, StatusBadRequest, StatusUnauthorized, StatusForbidden,
     StatusNotFound, StatusTeapot, StatusTooManyRequests,
     StatusInternalServerError, StatusNotImplemented, StatusBadGateway,
     StatusServiceUnavailable, StatusGatewayTimeout}

\* The body of a 200: a TokenResponse in JSON, or something that does not
\* decode.
TokenBody == [salts |-> SaltsStrip, accessToken |-> <<Junk, 1>>,
              serverTime |-> StartTime * MillisPerSecond]
Bodies == {"json", "garbage"}

\* The frame of one Client.Token(ctx) call. at: "do" (about to call
\* c.httpClient.Do), "backoff" (in doRequest's select), "ret" (returned);
\* attempt, lastErr: doRequest's loop variables; ctxDone: ctx is done;
\* answers: what each c.httpClient.Do call was answered (NoStatus: an error);
\* body: the body of the response doRequest returned; observed: the select
\* took the ctx.Done() branch; resp, err: what Token returned.
TokenFrame ==
    [fn |-> "Token", at |-> "do", attempt |-> 0, lastErr |-> ErrNil,
     ctxDone |-> FALSE, answers |-> << >>, body |-> "none", observed |-> FALSE,
     resp |-> << >>, err |-> ErrNil]

\* A client with MaxRetries in 0..MaxTokenRetries whose Token(ctx) is called.
InitToken ==
    /\ InitManager
    /\ maxRetries \in 0..MaxTokenRetries
    /\ calc = TokenFrame

\* Client.Token once doRequest has returned a response: a status other than
\* 200 is mapped to its error, a body that does not decode is an internal
\* error, else the decoded TokenResponse is returned.
TokenAfterResponse(statusCode, body) ==
    IF statusCode # StatusOK
    THEN [resp |-> << >>, err |-> MapHTTPStatusToError(statusCode)]
    ELSE IF body # "json"
    THEN [resp |-> << >>,
          err |-> NewInternalError("failed to decode token response", <<"json">>)]
    ELSE [resp |-> <<TokenBody>>, err |-> ErrNil]

\* doRequest retrying once more than MaxRetries allows.
DoRequestContinue_OneMore(a, e) ==
    IF calc.attempt > maxRetries
    THEN calc' = [calc EXCEPT !.at = "ret", !.attempt = @ + 1, !.lastErr = e,
                              !.answers = Append(@, a), !.err = e]
    ELSE calc' = [calc EXCEPT !.at = "backoff", !.attempt = @ + 1, !.lastErr = e,
                              !.answers = Append(@, a)]

\* doRequest's "continue" with lastErr = e after the answer a: the loop ends
\* and Token returns lastErr when attempt exceeds MaxRetries, else the next
\* pass begins with the backoff.
DoRequestContinue(a, e) ==
    IF calc.attempt + 1 > maxRetries
    THEN calc' = [calc EXCEPT !.at = "ret", !.attempt = @ + 1, !.lastErr = e,
                              !.answers = Append(@, a), !.err = e]
    ELSE calc' = [calc EXCEPT !.at = "backoff", !.attempt = @ + 1, !.lastErr = e,
                              !.answers = Append(@, a)]

\* One pass of doRequest's loop after the backoff: c.httpClient.Do(req) fails
\* (with the context's error once ctx is done), or the endpoint answers; a
\* retryable status continues the loop, any other response goes back to Token.
DoRequestAttempt ==
    /\ calc.fn = "Token"
    /\ calc.at = "do"
    /\ tokenCalls' = tokenCalls + 1
    /\ \/ \E e \in DoErrs(calc.ctxDone) : DoRequestContinue(NoStatus, NewNetworkError(e))
       \/ /\ ~calc.ctxDone
          /\ \E statusCode \in EndpointStatuses :
                IF Retryable(statusCode)
                THEN DoRequestContinue(statusCode, MapHTTPStatusToError(statusCode))
                ELSE \E body \in Bodies :
                        LET r == TokenAfterResponse(statusCode, body) IN
                        calc' = [calc EXCEPT !.at = "ret", !.body = body,
                                             !.answers = Append(@, statusCode),
                                             !.resp = r.resp, !.err = r.err]
    /\ UNCHANGED <<mgrVars, now, ticks, maxRetries, api, apiCalls>>

\* The select leaving by its Done branch but the loop carrying on.
DoRequestBackoff_ContinueOnDone ==
    /\ calc.fn = "Token"
    /\ calc.at = "backoff"
    /\ \/ /\ calc.ctxDone
          /\ calc' = [calc EXCEPT !.at = "do", !.observed = TRUE]
       \/ calc' = [calc EXCEPT !.at = "do"]
    /\ UNCHANGED <<mgrVars, now, ticks, clientVars>>

\* doRequest's select before a retry: with ctx done the Done branch returns
\* req.Context().Err(); the timer branch goes on to the next attempt. With
\* both ready (ctx done as the timer fires) the select takes either.
DoRequestBackoff ==
    /\ calc.fn = "Token"
    /\ calc.at = "backoff"
    /\ \/ /\ calc.ctxDone
          /\ calc' = [calc EXCEPT !.at = "ret", !.observed = TRUE, !.err = CtxErr]
       \/ calc' = [calc EXCEPT !.at = "do"]
    /\ UNCHANGED <<mgrVars, now, ticks, clientVars>>

\* ctx is cancelled, or its deadline passes, while Token has not returned.
TokenCtxCancel ==
    /\ calc.fn = "Token"
    /\ calc.at \in {"do", "backoff"}
    /\ ~calc.ctxDone
    /\ calc' = [calc EXCEPT !.ctxDone = TRUE]
    /\ UNCHANGED <<mgrVars, now, ticks, clientVars>>

NextToken ==
    \/ DoRequestAttempt
    \/ DoRequestBackoff
    \/ TokenCtxCancel

SpecToken == InitToken /\ [][NextToken]_vars

\* ================================================================== claims

Done(c) == pc[c] = "done"
Quiet == \A c \in Callers : pc[c] \in {"idle", "done"}
Returned == {c \in Callers : Done(c)}
SpecValid == accessToken # << >> /\ now - tokenTS < DefaultTokenTTL
\* The clean token of fetch number n.
TokenOfFetch(n) == <<n>>

\* C1 as stated: N >= 1 AccessToken calls begun while the cache is empty and
\* before any of them returned cause exactly one fetch and all return the same
\* token or the same error, whatever the interleaving.
C1_ExactlyOneFetch ==
    (herd /\ nCalls >= 1 /\ Quiet) =>
        /\ fetchCount = 1
        /\ \A c, d \in Returned : result[c] = result[d]

\* C1 amended: such calls cause at least one fetch and at most one per call;
\* when the token of the first fetch is in the cache and still valid once all
\* of them have returned, no second fetch was made and every call returned
\* that token.
C1_HerdFetchesOnceWhileValid ==
    (herd /\ nCalls >= 1 /\ Quiet) =>
        /\ fetchCount >= 1
        /\ fetchCount <= nCalls
        /\ (isValid /\ accessToken = TokenOfFetch(1)) =>
              /\ fetchCount = 1
              /\ \A c \in Returned : result[c] = [tok |-> accessToken, err |-> ErrNil]

\* Two calls of a herd collapsed into one round: one led, one waited, one
\* fetch, both hold its token.
C1_Witness ==
    /\ herd /\ Quiet /\ nCalls = 2 /\ fetchCount = 1
    /\ \E c, d \in Returned :
          /\ hist[c].role = "led" /\ hist[d].role = "waited"
          /\ result[c].tok = TokenOfFetch(1) /\ result[d] = result[c]

\* C2: at most one goroutine is inside the acquisition body at any time, and
\* only while the single-flight call is in flight.
C2_OneBodyAtATime ==
    /\ Cardinality({c \in Callers : InBody(c)}) <= 1
    /\ \A c \in Callers : InBody(c) => sf.active

\* An AccessToken caller fetches while a ForceUpdate caller waits on it.
C2_Witness ==
    \E c, d \in Callers :
        /\ pc[c] = "fetching" /\ op[c] = "AccessToken"
        /\ pc[d] = "sfWait" /\ op[d] = "ForceUpdate"

\* C3 as stated: a call that took part in a round returns that round's
\* outcome: its error, or for AccessToken the token the round stored.
C3_SharedOutcome ==
    \A c \in Returned :
        hist[c].role # "none" =>
            /\ hist[c].roundErr # ErrNil => result[c].err = hist[c].roundErr
            /\ (op[c] = "AccessToken" /\ hist[c].roundErr = ErrNil
                  /\ hist[c].roundTok \notin {NoTok, << >>})
                 => result[c] = [tok |-> hist[c].roundTok, err |-> ErrNil]

\* C4 as stated: a ForceUpdate begun while the cache is valid and no round is
\* in flight, and which runs the round's body itself, makes exactly one fetch.
C4_ForceUpdateFetches ==
    \A c \in Returned :
        (op[c] = "ForceUpdate" /\ hist[c].startValid /\ hist[c].role = "led")
            => hist[c].fetches = 1

\* C9: when the body ends in an error the cache holds what it held when the
\* body began, and every call of the round returns that error.
C9_FailureLeavesCache ==
    /\ \A c \in Callers :
          (pc[c] = "fnRet" /\ updErr[c] # ErrNil)
              => <<accessToken, tokenTS>> = cacheAtStart
    /\ \A c \in Callers :
          (pc[c] = "updRet" /\ hist[c].roundErr # ErrNil)
              => updErr[c] = hist[c].roundErr
    /\ \A c \in Returned :
          (hist[c].role # "none" /\ hist[c].roundErr # ErrNil)
              => result[c] = [tok |-> << >>, err |-> hist[c].roundErr]

\* A round fails while an earlier token is cached, and a waiter is released
\* with its error.
C9_Witness ==
    \E c, d \in Callers :
        /\ pc[c] = "updRet" /\ hist[c].role = "led" /\ updErr[c] # ErrNil
        /\ pc[d] = "updRet" /\ hist[d].role = "waited" /\ updErr[d] = updErr[c]
        /\ accessToken # << >>

CancelErrs == {<<"context canceled">>, <<"context deadline exceeded">>}

\* C10 as stated: a call whose ctx was cancelled while it waited on another
\* caller's round returns a cancellation error.
C10_WaiterCancelReturns ==
    \A c \in Returned :
        hist[c].waitCancel => result[c].err \in CancelErrs

\* C5 as stated: a fresh client with MaxRetries = 0 makes one API call; the
\* token responses carry the local time; the API endpoint answers 401, then
\* 200. The call succeeds after exactly 2 requests to the token endpoint and
\* exactly 2 to the API endpoint.
C5_RefreshOn401 ==
    \A c \in Callers :
        (/\ maxRetries = 0 /\ nCalls = 1
         /\ api[c].stage = "over" /\ api[c].synced
         /\ api[c].seen = <<StatusUnauthorized, StatusOK>>)
            => (api[c].err = ErrNil /\ tokenCalls = 2 /\ apiCalls = 2)

\* C6: within one API call ForceUpdate is invoked at most once and only after
\* a 401 to the first attempt; there are at most two authenticated attempts;
\* a 401 to the second attempt ends the call with a token-expired error.
C6_OneRefreshCycle ==
    \A c \in Callers :
        /\ api[c].fu <= 1
        /\ api[c].tries <= 2
        /\ Len(api[c].seen) <= api[c].tries
        /\ api[c].fu = 1 =>
              (api[c].seen # << >> /\ api[c].seen[1] = StatusUnauthorized)
        /\ api[c].tries = 2 => api[c].fu = 1
        /\ (op[c] = "ForceUpdate" /\ pc[c] # "done") =>
              (api[c].stage = "first" /\ api[c].seen = <<StatusUnauthorized>>)
        /\ (Len(api[c].seen) = 2 /\ api[c].seen[2] = StatusUnauthorized) =>
              /\ api[c].stage = "over"
              /\ ErrType(api[c].err) = "token_expired"
              /\ api[c].fu = 1 /\ api[c].tries = 2

\* An API call is answered 401 twice; its refresh fetched a second token; it
\* returned the token-expired error.
C6_Witness ==
    \E c \in Callers :
        /\ api[c].stage = "over"
        /\ api[c].seen = <<StatusUnauthorized, StatusUnauthorized>>
        /\ ErrType(api[c].err) = "token_expired"
        /\ api[c].fu = 1 /\ fetchCount = 2

CallStarts(c) == pc[c] \in {"idle", "done"} /\ pc'[c] \notin {"idle", "done"}

\* C7: an AccessToken call that finds the cache valid takes the hit path, and
\* the hit path returns the cached token with no fetch and without touching
\* the single-flight group; it can always proceed, whatever is in flight.
C7_CacheHitNoIO ==
    /\ [](\A c \in Callers : (pc[c] = "atHit" /\ ~crashed) => ENABLED AccessTokenHit(c))
    /\ [][\A c \in Callers :
            /\ (CallStarts(c) /\ op'[c] = "AccessToken" /\ SpecValid)
                 => (pc'[c] = "atHit" /\ fetchCount' = fetchCount /\ sf' = sf)
            /\ (pc[c] = "atHit" /\ pc'[c] # "atHit")
                 => /\ pc'[c] = "done"
                    /\ result'[c] = [tok |-> accessToken, err |-> ErrNil]
                    /\ fetchCount' = fetchCount /\ sf' = sf
                    /\ hist'[c].role = "none" /\ hist'[c].fetches = 0
                    /\ <<accessToken', tokenTS'>> = <<accessToken, tokenTS>>]_vars

\* An AccessToken call was served from the cache while another caller's
\* acquisition is at the network.
C7_Witness ==
    \E c, d \in Callers :
        /\ Done(c) /\ op[c] = "AccessToken" /\ hist[c].role = "none"
        /\ result[c].tok # << >> /\ result[c].err = ErrNil
        /\ pc[d] = "fetching"

\* C8: the cache counts as valid exactly when the token is non-empty and
\* younger than the TTL; an AccessToken call that finds it invalid goes to
\* update, and the body it runs there fetches exactly when the cache is
\* invalid.
C8_TTLValidity ==
    /\ [](isValid <=> SpecValid)
    /\ [][\A c \in Callers :
            /\ (CallStarts(c) /\ op'[c] = "AccessToken")
                 => pc'[c] = (IF SpecValid THEN "atHit" ELSE "sfDo")
            /\ (pc[c] = "sfDo" /\ pc'[c] \in BodyPCs)
                 => (fetchCount' = fetchCount + 1 <=> ~SpecValid)]_vars

\* A token that was valid at age TTL - 1 is found invalid at age TTL by an
\* AccessToken call, which reacquires.
C8_Witness ==
    \E c \in Callers :
        /\ accessToken # << >> /\ now - tokenTS = DefaultTokenTTL /\ ticks >= 1
        /\ pc[c] = "fetching" /\ op[c] = "AccessToken"
        /\ cacheAtStart = <<accessToken, tokenTS>>

\* The error a round ends with when its fetch was given a ctx that is done.
CancelCaused(e) == e = Wrap("get token", <<"canceled">>)

\* C11 as stated: a caller that waited on a round and whose own ctx was never
\* cancelled is not failed by the cancellation of another caller of the
\* round, the caller that started it included.
C11_CancelIsolation ==
    \A c \in Returned :
        (hist[c].role = "waited" /\ ~hist[c].waitCancel)
            => ~CancelCaused(result[c].err)

InCall(c) == pc[c] \notin {"idle", "done"}

\* C12 as stated: an AccessToken call that found the cache not valid and a
\* ForceUpdate call that are in progress at the same time have made at most
\* one fetch between them.
C12_ForcedOrdinaryOneFetch ==
    \A c, d \in Callers :
        (/\ c # d /\ InCall(c) /\ InCall(d)
         /\ op[c] = "AccessToken" /\ pc[c] # "atHit"
         /\ op[d] = "ForceUpdate")
            => hist[c].fetches + hist[d].fetches <= 1

\* C12 amended: a call (ForceUpdate or AccessToken alike) that enters sf.Do
\* while a round is in flight joins it and fetches nothing; no call fetches
\* more than once; while one call fetches and the other waits on it, the
\* round has made exactly one fetch.
C12_JoinSharesRound ==
    /\ [](\A c \in Callers :
            /\ hist[c].fetches <= 1
            /\ hist[c].role = "waited" => hist[c].fetches = 0)
    /\ [](\A c, d \in Callers :
            (pc[c] = "fetching" /\ pc[d] = "sfWait")
                => hist[c].fetches + hist[d].fetches = 1)
    /\ [][\A d \in Callers :
            (pc[d] = "sfDo" /\ pc'[d] # "sfDo" /\ sf.active)
                => (pc'[d] = "sfWait" /\ fetchCount' = fetchCount)]_vars

\* A ForceUpdate led the only round, an AccessToken call waited on it, and
\* both have returned after one fetch.
C12_Witness ==
    \E c, d \in Returned :
        /\ nCalls = 2 /\ fetchCount = 1
        /\ op[c] = "ForceUpdate" /\ hist[c].role = "led" /\ hist[c].fetches = 1
        /\ op[d] = "AccessToken" /\ hist[d].role = "waited"
        /\ result[d] = [tok |-> TokenOfFetch(1), err |-> ErrNil]

\* A call of sliceSkipAt has returned.
Stripped == calc.fn = "sliceSkipAt" /\ calc.done

HasDuplicate(ps) == \E i, j \in 1..Len(ps) : i < j /\ ps[i] = ps[j]

\* ps without the later occurrences of a position.
RECURSIVE Dedup(_)
Dedup(ps) ==
    IF ps = << >> THEN << >>
    ELSE LET front == Dedup(SubSeq(ps, 1, Len(ps) - 1))
             last == ps[Len(ps)]
         IN  IF \E i \in 1..Len(front) : front[i] = last THEN front
             ELSE Append(front, last)

\* The bytes of s, from the i-th on, whose index is not in the set P.
RECURSIVE KeepFrom(_, _, _)
KeepFrom(s, i, P) ==
    IF i > Len(s) THEN << >>
    ELSE (IF (i - 1) \in P THEN << >> ELSE <<s[i]>>) \o KeepFrom(s, i + 1, P)

PositionSet(ps) == {ps[i] : i \in 1..Len(ps)}
InRange(s, ps) == {p \in PositionSet(ps) : p >= 0 /\ p < Len(s)}

\* C13 as stated: with a position listed more than once sliceSkipAt completes
\* normally and returns what it returns for the list without the duplicates.
C13_DuplicatesIdempotent ==
    (Stripped /\ HasDuplicate(calc.positions)) =>
        /\ calc.out # Panic
        /\ calc.out = sliceSkipAt(calc.s, Dedup(calc.positions))

\* C14 as stated: sliceSkipAt returns exactly the bytes whose index is not a
\* listed position, in order; its length is len(raw) minus the number of
\* distinct in-range positions.
C14_StripReference ==
    Stripped =>
        /\ calc.out = KeepFrom(calc.s, 1, PositionSet(calc.positions))
        /\ Len(calc.out) = Len(calc.s) - Cardinality(InRange(calc.s, calc.positions))

\* The rearrangements of ps.
Perms(ps) ==
    {[i \in 1..Len(ps) |-> ps[f[i]]] :
        f \in {g \in [1..Len(ps) -> 1..Len(ps)] :
                 \A i, j \in 1..Len(ps) : g[i] = g[j] => i = j}}

\* C15: sliceSkipAt returns the same for every rearrangement of the
\* position list.
C15_OrderIndependent ==
    Stripped => \A q \in Perms(calc.positions) : sliceSkipAt(calc.s, q) = calc.out

\* Positions given in descending order were stripped: bytes 1 and 3 of a
\* three-byte string went, one byte is left.
C15_Witness ==
    /\ Stripped
    /\ Len(calc.s) = 3 /\ calc.positions = <<2, 0>>
    /\ calc.out = <<calc.s[2]>>

\* ps without the positions outside [0, len(s)).
RECURSIVE OnlyInRange(_, _)
OnlyInRange(s, ps) ==
    IF ps = << >> THEN << >>
    ELSE (IF Head(ps) >= 0 /\ Head(ps) < Len(s) THEN <<Head(ps)>> ELSE << >>)
            \o OnlyInRange(s, Tail(ps))

\* C16: positions outside [0, len(raw)) change nothing: the call returns what
\* it returns for the in-range positions alone, and raw itself when no
\* position is in range.
C16_OutOfRangeIgnored ==
    Stripped =>
        /\ calc.out = sliceSkipAt(calc.s, OnlyInRange(calc.s, calc.positions))
        /\ OnlyInRange(calc.s, calc.positions) = << >> => calc.out = calc.s

\* A negative position, one past the end and position 1 were given for a
\* three-byte string: only the byte at 1 went.
C16_Witness ==
    /\ Stripped
    /\ calc.s = <<1, 2, 1>> /\ calc.positions = <<0 - 1, 3, 1>>
    /\ calc.out = <<1, 1>>

\* C17: with no positions the string comes back byte for byte.
C17_IdentityOnNoPositions ==
    (Stripped /\ calc.positions = << >>) => calc.out = calc.s

\* A non-empty string went through sliceSkipAt with no positions.
C17_Witness ==
    /\ Stripped
    /\ calc.positions = << >> /\ Len(calc.s) = MaxStrLen /\ calc.out = calc.s

\* A call of parseResponse has returned.
Parsed == calc.fn = "parseResponse" /\ calc.done

\* What the exported function f returns for the arguments args.
Echo(f, args) == call5(f, args[1], args[2], args[3], args[4], args[5], FALSE).val

\* C18 as stated: the secondary positions come from the first function called
\* with (s2,s1,s3,s5,s4) and each of the other four with (s2,s1,s4,s3,s5).
C18_RefreshTableAsStated ==
    (Parsed /\ calc.idx.ok) =>
        LET s == calc.tr.salts IN
        /\ Len(calc.idx.refresh) = 5
        /\ \A k \in 1..5 :
             LET args == IF k = 1 THEN <<s[2], s[1], s[3], s[5], s[4]>>
                         ELSE <<s[2], s[1], s[4], s[3], s[5]>>
             IN  /\ calc.trace[5 + k] = <<EngineFns[k]>> \o args
                 /\ calc.idx.refresh[k] = Echo(EngineFns[k], args)

\* C18, as the code has it: the secondary positions come from cdx called with
\* (s2,s1,s3,s5,s4), rdx with (s2,s1,s3,s4,s5), and bdx, ndx and mdx each with
\* (s2,s1,s4,s3,s5), in that order.
C18_RefreshTable ==
    (Parsed /\ calc.idx.ok) =>
        LET s == calc.tr.salts IN
        /\ Len(calc.idx.refresh) = 5
        /\ \A k \in 1..5 :
             LET args == IF k = 1 THEN <<s[2], s[1], s[3], s[5], s[4]>>
                         ELSE IF k = 2 THEN <<s[2], s[1], s[3], s[4], s[5]>>
                         ELSE <<s[2], s[1], s[4], s[3], s[5]>>
             IN  /\ calc.trace[5 + k] = <<EngineFns[k]>> \o args
                 /\ calc.idx.refresh[k] = Echo(EngineFns[k], args)

\* The salts (1,2,3,4,5) went through: rdx was called seventh, with
\* (2,1,3,4,5), bdx after it with (2,1,4,3,5).
C18_Witness ==
    /\ Parsed /\ calc.idx.ok
    /\ calc.tr.salts = <<1, 2, 3, 4, 5>>
    /\ calc.trace[6] = <<"cdx", 2, 1, 3, 5, 4>>
    /\ calc.trace[7] = <<"rdx", 2, 1, 3, 4, 5>>
    /\ calc.trace[8] = <<"bdx", 2, 1, 4, 3, 5>>

\* C19: indicesFromSalts returns exactly five access positions, the k-th
\* being the k-th function's answer, cdx having been called once with
\* (s1,s2,s3,s4,s5) and rdx, bdx, ndx, mdx once each with (s1,s2,s4,s3,s5).
C19_AccessTable ==
    (Parsed /\ calc.idx.ok) =>
        LET s == calc.tr.salts IN
        /\ Len(calc.idx.access) = 5
        /\ \A k \in 1..5 :
             LET args == IF k = 1 THEN <<s[1], s[2], s[3], s[4], s[5]>>
                         ELSE <<s[1], s[2], s[4], s[3], s[5]>>
             IN  /\ calc.trace[k] = <<EngineFns[k]>> \o args
                 /\ calc.idx.access[k] = Echo(EngineFns[k], args)
                 /\ Cardinality({j \in 1..5 : calc.trace[j][1] = EngineFns[k]}) = 1

\* The salts (1,2,3,4,5) went through: cdx was called with them as they are,
\* mdx with 3 and 4 swapped.
C19_Witness ==
    /\ Parsed /\ calc.idx.ok
    /\ calc.tr.salts = <<1, 2, 3, 4, 5>>
    /\ calc.trace[1] = <<"cdx", 1, 2, 3, 4, 5>>
    /\ calc.trace[5] = <<"mdx", 1, 2, 4, 3, 5>>
    /\ Len(calc.idx.access) = 5

\* C20: when any one engine invocation fails, indicesFromSalts returns an
\* error with no access and no secondary positions, no later invocation is
\* made, and parseResponse fails with the error wrapped.
C20_NoPartialIndices ==
    (Parsed /\ calc.failAt # 0) =>
        /\ ~calc.idx.ok
        /\ calc.idx.access = << >> /\ calc.idx.refresh = << >>
        /\ Len(calc.trace) = calc.failAt
        /\ calc.out.err = Wrap("wasm parse", <<"engine call failed">>)
        /\ calc.out.access = << >>

\* The seventh invocation (rdx for the secondary token) failed after all five
\* access positions had been computed.
C20_Witness ==
    /\ Parsed /\ calc.failAt = 7
    /\ ~calc.idx.ok /\ calc.idx.access = << >>
    /\ calc.out.err # ErrNil

\* A call of call5 has returned.
Called5 == calc.fn = "call5" /\ calc.done

\* x and y have the same low IntBits bits.
SameLowBits(x, y) == (x - y) % TwoPow(IntBits) = 0

\* C21: call5 hands over each argument as its low bits (the width being
\* IntBits here, 32 in the program), and reads the low bits of the function's
\* result as a two's-complement number: the position it returns lies in
\* [-2^(w-1), 2^(w-1) - 1], and a salt outside the range is passed wrapped.
C21_SignedCallingConvention ==
    Called5 =>
        /\ \A k \in 1..5 :
             /\ calc.passed[k] \in 0..(TwoPow(IntBits) - 1)
             /\ SameLowBits(calc.passed[k], calc.args[k])
        /\ calc.out.ok
        /\ calc.out.val >= 0 - TwoPow(IntBits - 1)
        /\ calc.out.val <= TwoPow(IntBits - 1) - 1
        /\ SameLowBits(calc.out.val,
                       EngineFn(calc.f, calc.passed[1], calc.passed[2],
                                calc.passed[3], calc.passed[4], calc.passed[5]))

\* A salt beyond the width was passed wrapped to 1, a negative one as the top
\* of the unsigned range, and a result with the sign bit set came back
\* negative.
C21_Witness ==
    /\ Called5
    /\ calc.args[3] = TwoPow(IntBits) + 1 /\ calc.passed[3] = 1
    /\ calc.args[2] = 0 - 1 /\ calc.passed[2] = TwoPow(IntBits) - 1
    /\ calc.out.val < 0

\* floor(m / 1000): whole seconds of m milliseconds.
FloorSeconds(m) == m \div MillisPerSecond

\* C22: the step in which fn stores the response of a successful fetch leaves
\* the cache's timestamp at floor(M / 1000) for the response's server time M,
\* whatever the local clock reads, and at the local clock only when
\* floor(M / 1000) <= 0.
C22_TimestampAnchoring ==
    [][\A c \in Callers :
         (pc[c] = "fetching" /\ pc'[c] = "fnRet" /\ updErr'[c] = ErrNil) =>
             LET secs == FloorSeconds(hist'[c].respTime[1])
             IN  tokenTS' = IF secs > 0 THEN secs ELSE now]_vars

\* A response whose server time lags the local clock has been stored: the
\* cache carries the server's second, not the local one.
C22_Witness ==
    \E c \in Callers :
        /\ pc[c] = "fnRet" /\ updErr[c] = ErrNil
        /\ hist[c].respTime = <<(now - (DefaultTokenTTL - 1)) * MillisPerSecond>>
        /\ tokenTS = now - (DefaultTokenTTL - 1)
        /\ tokenTS # now

\* A response without a server time has been stored under the local clock.
C22_WitnessLocal ==
    \E c \in Callers :
        /\ pc[c] = "fnRet" /\ updErr[c] = ErrNil
        /\ hist[c].respTime = <<0 - 1>>
        /\ tokenTS = now

\* C23 as stated: the step in which fn stores the response of a successful
\* fetch leaves the manager Valid (token held, age < TTL), whatever the
\* response's server time, salts and token.
C23_SuccessExitsValid ==
    [][\A c \in Callers :
         (pc[c] = "fetching" /\ pc'[c] = "fnRet" /\ updErr'[c] = ErrNil) =>
             (accessToken' # << >> /\ now' - tokenTS' < DefaultTokenTTL)]_vars

\* C24 as stated: AccessToken never returns a nil error with an empty token;
\* a call whose round ended without error and that found the token empty
\* returns 'empty access token after update', which is neither a fetch
\* failure nor an engine failure.
C24_EmptyIsAnError ==
    \A c \in Returned :
        op[c] = "AccessToken" =>
            /\ ~(result[c].err = ErrNil /\ result[c].tok = << >>)
            /\ (hist[c].role # "none" /\ hist[c].roundErr = ErrNil
                  /\ result[c].tok = << >>)
                 => /\ result[c].err = <<"empty access token after update">>
                    /\ result[c].err[1] \notin {"get token", "wasm parse"}

\* A construction has returned.
Constructed == calc.fn = "initClient" /\ calc.done

\* C25: newTokenParser returns either a parser with all five exports bound
\* and no error, or - when compilation, instantiation or the lookup of any
\* export failed - an error, no parser, and the runtime it created closed; in
\* that case NewManager and initClient return errors and no manager and no
\* client exist.
C25_NoDegradedEngine ==
    Constructed =>
        LET m == calc.out.manager
            p == m.parser
            broken == calc.loadFault # "none" \/ calc.missing # {}
        IN  /\ (p.err # ErrNil) <=> broken
            /\ p.err = ErrNil =>
                 /\ p.parser /\ p.rt = "open"
                 /\ p.funcs = {"cdx", "rdx", "bdx", "ndx", "mdx"}
                 /\ m.manager /\ m.err = ErrNil
                 /\ calc.out.client /\ calc.out.err = ErrNil
            /\ p.err # ErrNil =>
                 /\ ~p.parser /\ p.funcs = {} /\ p.rt = "closed"
                 /\ ~m.manager /\ m.err # ErrNil
                 /\ ~calc.out.client /\ calc.out.err # ErrNil

\* The module lacked its fourth export only: construction failed with the
\* runtime closed and no client.
C25_Witness ==
    /\ Constructed
    /\ calc.loadFault = "none" /\ calc.missing = {"ndx"}
    /\ ~calc.out.client
    /\ calc.out.manager.parser.rt = "closed"
    /\ calc.out.manager.parser.err = <<"export not found", "ndx">>

\* The Token call has returned.
TokenReturned == calc.fn = "Token" /\ calc.at = "ret"

\* A status doRequest is to retry on: any 5xx, or 429.
SpecRetryable(a) == a >= 500 \/ a = 429

\* The first n answers were retryable statuses.
RetryableUpTo(n) == \A i \in 1..n : SpecRetryable(calc.answers[i])

\* C26: with retryable answers (5xx or 429) to the first k <= MaxRetries
\* attempts Token is still trying, and when a 200 with a token follows it
\* returns that token, non-empty, without error after exactly k + 1 calls of
\* the endpoint.
C26_RetryUntilSuccess ==
    calc.fn = "Token" =>
        LET n == Len(calc.answers) IN
        /\ (~calc.ctxDone /\ n <= maxRetries /\ RetryableUpTo(n)) => calc.at # "ret"
        /\ (TokenReturned /\ n >= 1 /\ n - 1 <= maxRetries /\ RetryableUpTo(n - 1)
              /\ calc.answers[n] = 200 /\ calc.body = "json") =>
               /\ calc.err = ErrNil
               /\ calc.resp = <<TokenBody>> /\ calc.resp[1].accessToken # << >>
               /\ tokenCalls = n

\* Two 503 and then 200 with MaxRetries = 3: three calls, success.
C26_Witness ==
    /\ TokenReturned /\ maxRetries = 3
    /\ calc.answers = <<503, 503, 200>>
    /\ tokenCalls = 3 /\ calc.err = ErrNil /\ calc.resp # << >>

\* C27: doRequest never makes more than MaxRetries + 1 attempts for one
\* request; when every attempt was answered 503 (ctx alive) Token returns an
\* error after exactly MaxRetries + 1 calls of the endpoint.
C27_RetryBudget ==
    calc.fn = "Token" =>
        /\ tokenCalls <= maxRetries + 1
        /\ tokenCalls = Len(calc.answers)
        /\ (TokenReturned /\ ~calc.ctxDone
              /\ \A i \in 1..Len(calc.answers) : calc.answers[i] = 503) =>
               /\ calc.err # ErrNil /\ calc.resp = << >>
               /\ tokenCalls = maxRetries + 1

\* Four 503 with MaxRetries = 3: the error of the last one after four calls.
C27_Witness ==
    /\ TokenReturned /\ maxRetries = 3 /\ ~calc.ctxDone
    /\ calc.answers = <<503, 503, 503, 503>>
    /\ tokenCalls = 4 /\ ErrType(calc.err) = "invalid_server_response"

\* The error kind the claim gives for a status.
SpecKind(a) ==
    CASE a = 400 -> "invalid_client_request"
      [] a = 401 -> "token_expired"
      [] a = 403 -> "unauthorized"
      [] a = 404 -> "not_found"
      [] a = 429 -> "rate_limit"
      [] a \in {500, 502, 503} -> "invalid_server_response"
      [] OTHER -> IF a >= 500 THEN "invalid_server_response" ELSE "internal_error"

\* C28: with MaxRetries = 0 a response of the token endpoint with a status
\* other than 200 makes Token return a NepseError of the kind listed for the
\* status.
C28_StatusToErrorKind ==
    (TokenReturned /\ maxRetries = 0 /\ calc.answers # << >>
       /\ calc.answers[1] \notin {NoStatus, 200}) =>
        /\ Len(calc.answers) = 1
        /\ calc.resp = << >>
        /\ ErrType(calc.err) = SpecKind(calc.answers[1])

\* A 403 came back as 'unauthorized'.
C28_Witness ==
    /\ TokenReturned /\ maxRetries = 0
    /\ calc.answers = <<403>>
    /\ ErrType(calc.err) = "unauthorized"

\* C29: a Token call whose ctx was done before the endpoint's answer returns
\* a non-nil error, and a select that leaves by ctx.Done() makes doRequest
\* return the context's error at once, with no further attempt.
C29_CancelledFetch ==
    /\ [](calc.fn = "Token" =>
            /\ (TokenReturned /\ calc.ctxDone) => (calc.err # ErrNil /\ calc.resp = << >>)
            /\ calc.observed => (TokenReturned /\ calc.err = CtxErr))
    /\ [][(calc.fn = "Token" /\ ~calc.observed /\ calc'.observed)
             => (tokenCalls' = tokenCalls /\ calc'.at = "ret")]_vars

\* The first attempt was answered 503, ctx was cancelled during the backoff,
\* and Token returned the context's error after that one call.
C29_Witness ==
    /\ TokenReturned /\ calc.observed
    /\ calc.answers = <<503>> /\ tokenCalls = 1
    /\ calc.err = CtxErr

\* C30: every request doAuthenticatedRequest hands to the network, first
\* attempt or retry, carries Authorization: 'Salter ' followed by the token
\* AccessToken returned to that doAuthenticatedRequest call - never 'Bearer'.
C30_SalterHeader ==
    \A c \in Callers :
        pc[c] \in {"apiDo", "apiBackoff"} =>
            /\ api[c].header.name = "Authorization"
            /\ api[c].header.scheme = "Salter "
            /\ api[c].header.scheme # "Bearer "
            /\ result[c].err = ErrNil
            /\ api[c].header.token = result[c].tok

\* After a 401 and a refresh the retried request is about to go out with the
\* token of the second fetch.
C30_Witness ==
    \E c \in Callers :
        /\ pc[c] = "apiDo" /\ api[c].stage = "retry"
        /\ api[c].header = [name |-> "Authorization", scheme |-> "Salter ",
                            token |-> TokenOfFetch(2)]

\* The timestamp fn writes for a response with server time m at local time t.
StampOf(m, t) == IF FloorSeconds(m) > 0 THEN FloorSeconds(m) ELSE t

\* C32: the cached token or timestamp changes only in the step of a round's
\* body that stores a fetched response, inside the single-flight section, and
\* that one step writes both: the token and the timestamp of the same
\* response.
C32_AtomicReplacement ==
    [][(accessToken' # accessToken \/ tokenTS' # tokenTS) =>
          \E c \in Callers :
              /\ sf.active /\ hist[c].role = "led"
              /\ pc[c] = "fetching" /\ pc'[c] = "fnRet" /\ updErr'[c] = ErrNil
              /\ \A d \in Callers \ {c} : ~InBody(d)
              /\ accessToken' = hist'[c].roundTok
              /\ tokenTS' = StampOf(hist'[c].respTime[1], now)]_vars

\* The token of the first fetch has been replaced by the token of the second
\* together with its timestamp.
C32_Witness ==
    \E c \in Callers :
        /\ pc[c] = "fnRet" /\ updErr[c] = ErrNil /\ hist[c].respTime # << >>
        /\ cacheAtStart[1] = TokenOfFetch(1)
        /\ accessToken = TokenOfFetch(2)
        /\ tokenTS # cacheAtStart[2]

\* C34: no call ever invokes the fetch more than once, and a call whose round
\* failed returns the round's error.
C34_NoInternalRetry ==
    /\ \A c \in Callers : hist[c].fetches <= 1
    /\ fetchCount <= nCalls
    /\ \A c \in Returned :
          (hist[c].role = "led" /\ hist[c].roundErr # ErrNil)
              => (hist[c].fetches <= 1 /\ result[c].err = hist[c].roundErr)

\* The only call made fetched once, the fetch failed, and the call returned
\* the error.
C34_Witness ==
    \E c \in Returned :
        /\ nCalls = 1 /\ fetchCount = 1 /\ hist[c].fetches = 1
        /\ result[c].err = Wrap("get token", <<"network">>)

\* C35: a fetch is started only by a caller that creates the single-flight
\* call and finds the cache not valid at that moment; a caller that went to
\* update on an invalid cache and creates the call when the cache is valid
\* again returns without fetching.
C35_DoubleCheckedFetch ==
    [][/\ fetchCount' # fetchCount =>
             /\ fetchCount' = fetchCount + 1
             /\ ~isValid /\ ~sf.active
             /\ \E c \in Callers : pc[c] = "sfDo" /\ pc'[c] = "fetching"
       /\ \A c \in Callers :
             (pc[c] = "sfDo" /\ pc'[c] # "sfDo" /\ ~sf.active /\ isValid)
                 => (fetchCount' = fetchCount /\ pc'[c] = "fnRet"
                       /\ hist'[c].fetches = 0)]_vars

\* An AccessToken call that found the cache empty has run the body after
\* another round stored a token, and has not fetched.
C35_Witness ==
    \E c \in Callers :
        /\ op[c] = "AccessToken" /\ pc[c] = "fnRet"
        /\ hist[c].role = "led" /\ hist[c].fetches = 0
        /\ ~hist[c].startValid
        /\ isValid /\ fetchCount = 1

\* C36 as stated, for the first call on a new manager: when AccessToken
\* returns an error the cache holds what it held before the call (no token,
\* no timestamp).
C36_ErrorLeavesCache ==
    \A c \in Returned :
        (nCalls = 1 /\ op[c] = "AccessToken" /\ result[c].err # ErrNil)
            => (accessToken = << >> /\ tokenTS = ZeroTime)

\* C37 as stated: under fair scheduling, every fetch returning, each
\* AccessToken and ForceUpdate call eventually returns.
C37_Termination ==
    \A c \in Callers : InCall(c) ~> Done(c)


\* ------------------------------------------------------------------- C38
\* The step in which call c's acquisition body hands the fetched response to
\* the engine (parseResponse): the body leaves "fetching" otherwise than with
\* the fetch's own error.
EngineInvoked(c) ==
    /\ pc[c] = "fetching"
    /\ pc'[c] \in {"fnRet", "panicked"}
    /\ (pc'[c] = "fnRet" /\ updErr'[c] # ErrNil) => Head(updErr'[c]) # "get token"

\* The step in which Close releases the runtime.
Releases == ~EngineReleased /\ EngineReleased'

\* C38: no engine function is invoked once Close has released the runtime, and
\* Close does not release the runtime while an acquisition is in flight.
C38_NoEngineUseAfterRelease ==
    [][/\ \A c \in Callers : EngineInvoked(c) => ~EngineReleased
       /\ Releases => \A c \in Callers : ~InBody(c)]_vars

\* The first half alone, and the second half alone.
C38_NoUseAfterRelease ==
    [][\A c \in Callers : EngineInvoked(c) => ~EngineReleased]_vars

C38_NoReleaseInFlight ==
    [][Releases => \A c \in Callers : ~InBody(c)]_vars


\* ------------------------------------------------------------------- C31
\* A Close call that has returned, and whether its receiver holds an engine.
Closed == calc.fn = "Close" /\ calc.done
HoldsEngine == calc.hasManager /\ calc.hasParser

\* C31: Client.Close calls Manager.Close, which releases the engine runtime:
\* after one Close call the runtime is released. Close on a client or manager
\* without an engine returns nil without failing and releases nothing.
C31_Teardown ==
    Closed =>
        /\ (calc.on = "Client" /\ calc.hasManager) =>
               /\ Len(calc.out.calls) >= 2
               /\ calc.out.calls[1] = "Client.Close"
               /\ calc.out.calls[2] = "Manager.Close"
        /\ HoldsEngine =>
               /\ calc.out.rt = "closed"
               /\ calc.out.err = calc.rtErr
               /\ calc.out.calls[Len(calc.out.calls)] = "rt.Close"
        /\ ~HoldsEngine =>
               /\ calc.out.err = ErrNil
               /\ calc.out.rt = "none"
               /\ calc.out.calls[Len(calc.out.calls)] # "rt.Close"

\* A client's Close has released the open runtime of its manager's engine.
C31_Witness ==
    /\ Closed /\ calc.on = "Client" /\ HoldsEngine
    /\ calc.rt = "open" /\ calc.out.rt = "closed"

\* A client without a manager has been closed.
C31_WitnessBare ==
    Closed /\ calc.on = "Client" /\ ~calc.hasManager /\ calc.out.err = ErrNil


\* ------------------------------------------------------------------- C33
\* The step in which call c's acquisition body stores a fetched token and
\* returns without error.
StoresToken(c) ==
    /\ pc[c] = "fetching" /\ pc'[c] = "fnRet"
    /\ updErr'[c] = ErrNil
    /\ accessToken' = hist'[c].roundTok

\* C33: an invalid cache becomes valid only in the step in which an
\* acquisition succeeds: not when an acquisition fails, not when time passes,
\* not in any step of an AccessToken or ForceUpdate call that did not fetch,
\* and not when Close runs.
C33_ValidOnlyByAcquisition ==
    [][(~isValid /\ isValid') => \E c \in Callers : StoresToken(c)]_vars

\* An expired, non-empty cache after an acquisition that failed since it
\* expired, with the runtime released meanwhile.
C33_Witness ==
    /\ accessToken # << >> /\ ~isValid
    /\ EngineReleased
    /\ \E c \in Callers : Done(c) /\ hist[c].role = "led" /\ result[c].err # ErrNil
                         /\ hist[c].fetches = 1 /\ ~hist[c].startValid


\* ------------------------------------------------------------------- C39
\* The call of c is inside doRequest for the API request.
InApiLoop(c) == pc[c] \in {"apiDo", "apiBackoff"}

\* C39: one apiRequest call enters doAuthenticatedRequest at most twice, so it
\* calls AccessToken at most twice and ForceUpdate at most once, and makes at
\* most 2 * (MaxRetries + 1) attempts of the API request; when the request
\* loop of the nested doAuthenticatedRequest ends, the call returns.
C39_BoundedWork ==
    /\ [](\A c \in Callers :
             /\ api[c].tries <= 2
             /\ api[c].fu <= 1
             /\ api[c].sent <= 2 * (maxRetries + 1)
             /\ api[c].sent <= api[c].tries * (maxRetries + 1))
    /\ [][\A c \in Callers :
             (api[c].stage = "retry" /\ InApiLoop(c) /\ ~InApiLoop(c)') =>
                 (api'[c].stage = "over" /\ pc'[c] = "done")]_vars

\* A call that came back after two passes through doAuthenticatedRequest, one
\* ForceUpdate, and every attempt its budget allows.
C39_Witness ==
    \E c \in Callers :
        /\ api[c].stage = "over"
        /\ api[c].tries = 2 /\ api[c].fu = 1
        /\ api[c].sent = 2 * (maxRetries + 1)

====
